---- MODULE Spec2Model ----
(***************************************************************************)
(* commit-viz collector: the concurrent history extractor (sources/git.py) *)
(* and the change-flow analytics engine (sources/change_flow.py).          *)
(*                                                                         *)
(* A commit SHA is a number 1..MaxCommits; a parent always has a smaller   *)
(* number than its child, so the history is a DAG.  A reference name is a  *)
(* sequence of path components (<<"origin", "main">> is "origin/main").    *)
(***************************************************************************)
EXTENDS Integers, Sequences, FiniteSets, TLC

\* ------------------------------------------------------------------------
\* Bounds of the model
\* ------------------------------------------------------------------------
MaxCommits == 3
MaxRefs == 2
MaxCpus == 2

Shas == 1..MaxCommits

\* ------------------------------------------------------------------------
\* Generic helpers
\* ------------------------------------------------------------------------
Range(s) == {s[i] : i \in DOMAIN s}

Min2(a, b) == IF a <= b THEN a ELSE b

Max2(a, b) == IF a >= b THEN a ELSE b

\* ------------------------------------------------------------------------
\* Reference names.  Python compares names as strings; the components used
\* here are listed in ASCII order, and a name that is a proper prefix of
\* another sorts first, as "a" < "a/b" does.
\* ------------------------------------------------------------------------
Alphabet == <<"HEAD", "dev", "feature", "main", "master", "origin", "unknown", "v1", "v2">>

CompRank(c) == CHOOSE i \in DOMAIN Alphabet : Alphabet[i] = c

RECURSIVE NameLess(_, _)
NameLess(a, b) ==
    IF a = <<>> THEN b # <<>>
    ELSE IF b = <<>> THEN FALSE
    ELSE IF Head(a) # Head(b) THEN CompRank(Head(a)) < CompRank(Head(b))
    ELSE NameLess(Tail(a), Tail(b))

\* sorted(names)[0]
SortedFirst(names) == CHOOSE n \in names : \A m \in names : m = n \/ NameLess(n, m)

\* name.startswith("origin/") -> name[len("origin/"):]
StripOrigin(name) ==
    IF Len(name) >= 2 /\ Head(name) = "origin" THEN Tail(name) ELSE name

HEADName == <<"HEAD">>

\* ------------------------------------------------------------------------
\* Commit classifier (git.py 17-121).  A message is modelled by the set of
\* table keywords its lower-cased first line contains; `kw in msg_lower` is
\* membership in that set.  A keyword containing another as a substring
\* cannot occur without it (KeywordClosed).
\* ------------------------------------------------------------------------
CATEGORY_KEYWORDS == <<
    [cat |-> "merge", kws |-> {"merge pull request", "merge branch", "merge remote",
                               "merged in", "merge commit", "squash and merge"}],
    [cat |-> "squash", kws |-> {"squash", "squashed commit", "fixup!", "amend"}],
    [cat |-> "conflict", kws |-> {"merge conflict", "conflict resolution", "resolve conflict",
                                  "fix conflict", "resolved merge", "fix merge"}],
    [cat |-> "release", kws |-> {"release", "bump version", "version bump", "prepare release"}],
    [cat |-> "bugfix", kws |-> {"fix", "bugfix", "hotfix", "patch", "repair", "resolve"}],
    [cat |-> "feature", kws |-> {"feat", "add", "implement", "introduce", "new"}],
    [cat |-> "docs", kws |-> {"doc", "readme", "changelog", "license", "comment"}],
    [cat |-> "test", kws |-> {"test", "spec", "coverage"}],
    [cat |-> "ci", kws |-> {"ci", "pipeline", "workflow", "github action", "travis", "jenkins"}],
    [cat |-> "refactor", kws |-> {"refactor", "restructure", "reorganize", "clean", "simplify"}] >>

CONVENTIONAL_TYPES == {"feat", "fix", "docs", "style", "refactor", "perf", "test",
                       "build", "ci", "chore", "revert"}

CONVENTIONAL_TO_CATEGORY ==
    [t \in CONVENTIONAL_TYPES |->
        CASE t = "feat" -> "feature"
          [] t = "fix" -> "bugfix"
          [] t = "docs" -> "docs"
          [] t \in {"style", "refactor", "perf"} -> "refactor"
          [] t = "test" -> "test"
          [] t \in {"build", "ci"} -> "ci"
          [] t \in {"chore", "revert"} -> "other"]

\* Mutant: the structural categories are tried in the order of the table
StructuralOrder_TableOrder == <<"merge", "squash", "conflict">>

\* line 94: for category in ("conflict", "merge", "squash")
StructuralOrder == <<"conflict", "merge", "squash">>

RealWorkKeywords == {"feat", "fix", "add", "implement", "release", "doc", "test"}

NoType == "None"

\* any(kw in msg_lower for kw in kws)
AnyIn(kws, msg_lower) == \E kw \in kws : kw \in msg_lower

\* for cat, keywords in table: (skipping `skip`) first category with a match
RECURSIVE FirstKeywordCategory(_, _, _)
FirstKeywordCategory(table, skip, msg_lower) ==
    IF table = <<>> THEN NoType
    ELSE IF Head(table).cat \notin skip /\ AnyIn(Head(table).kws, msg_lower)
         THEN Head(table).cat
         ELSE FirstKeywordCategory(Tail(table), skip, msg_lower)

\* for category in ("conflict", "merge", "squash"): scan the table entries
\* of that category
RECURSIVE FirstStructural(_, _)
FirstStructural(order, msg_lower) ==
    IF order = <<>> THEN NoType
    ELSE IF \E i \in DOMAIN CATEGORY_KEYWORDS :
              /\ CATEGORY_KEYWORDS[i].cat = Head(order)
              /\ AnyIn(CATEGORY_KEYWORDS[i].kws, msg_lower)
         THEN Head(order)
         ELSE FirstStructural(Tail(order), msg_lower)

\* Mutant: the conventional type is looked at before the structural keywords
classify_category_TypeFirst(msg_lower, conventional_type, is_merge_commit) ==
    LET structural == FirstStructural(StructuralOrder, msg_lower)
        fallback == FirstKeywordCategory(CATEGORY_KEYWORDS,
                                         {"merge", "squash", "conflict"}, msg_lower)
    IN  IF conventional_type # NoType
        THEN (IF conventional_type \in DOMAIN CONVENTIONAL_TO_CATEGORY
              THEN CONVENTIONAL_TO_CATEGORY[conventional_type] ELSE "other")
        ELSE IF structural # NoType THEN structural
        ELSE IF is_merge_commit /\ ~AnyIn(RealWorkKeywords, msg_lower) THEN "merge"
        ELSE IF fallback # NoType THEN fallback
        ELSE "other"

classify_category(msg_lower, conventional_type, is_merge_commit) ==
    LET structural == FirstStructural(StructuralOrder, msg_lower)
        fallback == FirstKeywordCategory(CATEGORY_KEYWORDS,
                                         {"merge", "squash", "conflict"}, msg_lower)
    IN  IF structural # NoType THEN structural
        ELSE IF is_merge_commit /\ ~AnyIn(RealWorkKeywords, msg_lower) THEN "merge"
        ELSE IF conventional_type # NoType
             THEN (IF conventional_type \in DOMAIN CONVENTIONAL_TO_CATEGORY
                   THEN CONVENTIONAL_TO_CATEGORY[conventional_type] ELSE "other")
        ELSE IF fallback # NoType THEN fallback
        ELSE "other"

\* The keywords that are substrings of a longer keyword.
KeywordParts ==
    [k \in {"bugfix", "fix conflict", "fix merge", "fixup!", "hotfix"} |-> "fix"]
    @@ [k \in {"prepare release"} |-> "release"]
    @@ [k \in {"resolve conflict", "resolved merge"} |-> "resolve"]
    @@ [k \in {"squash and merge", "squashed commit"} |-> "squash"]

KeywordClosed(msg_lower) ==
    \A k \in msg_lower : k \in DOMAIN KeywordParts => KeywordParts[k] \in msg_lower

\* ------------------------------------------------------------------------
\* Time.  One tick is 1/TicksPerDay of a day.  An aware datetime is its wall
\* clock reading and its UTC offset, both in ticks; the instant it denotes
\* is wall - off, and aware datetimes compare by instant.  A string is a
\* sequence of character codes and compares as Python compares str.
\* ------------------------------------------------------------------------
TicksPerDay == 2
IsoWidth == 7

Instant(dt) == dt.wall - dt.off

\* dt.astimezone(timezone.utc)
AsUTC(dt) == [wall |-> Instant(dt), off |-> 0]

\* dt.date()
DateOf(dt) == dt.wall \div TicksPerDay

RECURSIVE Pow10(_)
Pow10(n) == IF n = 0 THEN 1 ELSE 10 * Pow10(n - 1)

Abs(n) == IF n < 0 THEN -n ELSE n

\* dt.isoformat(): zero-padded wall clock digits, then the signed offset
isoformat(dt) ==
    [i \in 1..IsoWidth |-> 48 + ((dt.wall \div Pow10(IsoWidth - i)) % 10)]
    \o <<(IF dt.off < 0 THEN 45 ELSE 43), 48 + Abs(dt.off)>>

RECURSIVE DigitsValue(_)
DigitsValue(ds) ==
    IF ds = <<>> THEN 0 ELSE 10 * DigitsValue(SubSeq(ds, 1, Len(ds) - 1)) + (ds[Len(ds)] - 48)

\* datetime.fromisoformat(ts)
parse_ts(ts) ==
    [wall |-> DigitsValue(SubSeq(ts, 1, Len(ts) - 2)),
     off |-> (IF ts[Len(ts) - 1] = 45 THEN -1 ELSE 1) * (ts[Len(ts)] - 48)]

\* _to_date(ts)
to_date(ts) == DateOf(parse_ts(ts))

RECURSIVE StrLess(_, _)
StrLess(a, b) ==
    IF b = <<>> THEN FALSE
    ELSE IF a = <<>> THEN TRUE
    ELSE IF Head(a) # Head(b) THEN Head(a) < Head(b)
    ELSE StrLess(Tail(a), Tail(b))

\* list.sort(key=lambda c: c.timestamp): stable, ascending by the string
RECURSIVE InsertByTimestamp(_, _)
InsertByTimestamp(sorted, x) ==
    IF sorted = <<>> THEN <<x>>
    ELSE IF StrLess(x.timestamp, sorted[Len(sorted)].timestamp)
         THEN Append(InsertByTimestamp(SubSeq(sorted, 1, Len(sorted) - 1), x),
                     sorted[Len(sorted)])
         ELSE Append(sorted, x)

RECURSIVE SortByTimestamp(_)
SortByTimestamp(xs) ==
    IF xs = <<>> THEN <<>>
    ELSE InsertByTimestamp(SortByTimestamp(SubSeq(xs, 1, Len(xs) - 1)), xs[Len(xs)])

\* A date-range bound of the configuration: the empty string, one of the
\* special words, an ISO date, or text that is no date.
None == [kind |-> "None"]

\* value.lower() on the texts of the model
LowerOf == ("ALL" :> "all") @@ ("Today" :> "today") @@ ("now" :> "now") @@ ("soon" :> "soon")

\* line 126
SpecialWords == {"all", "beginning", "present", "now", "today"}

\* _parse_date_bound(value): fromisoformat(value).replace(tzinfo=timezone.utc)
\* keeps the wall-clock reading of the text and drops its offset; text that
\* is no ISO date raises ValueError, which gives None
parse_date_bound(value) ==
    IF value.kind = "empty" THEN None
    ELSE IF value.kind = "text" /\ LowerOf[value.text] \in SpecialWords THEN None
    ELSE IF value.kind = "iso" THEN [kind |-> "datetime", wall |-> value.wall, off |-> 0]
    ELSE None

\* _in_date_range(ts, start, end)
in_date_range(ts, start, end) ==
    LET start_dt == parse_date_bound(start)
        end_dt == parse_date_bound(end)
    IN  IF start_dt # None /\ Instant(ts) < Instant(start_dt) THEN FALSE
        ELSE IF end_dt # None /\ Instant(ts) > Instant(end_dt) THEN FALSE
        ELSE TRUE

\* Mutant: the committer's local time is kept
commit_timestamp_Local(committed) == committed

\* _commit_timestamp(commit), on the commit's committed_datetime
commit_timestamp(committed) == AsUTC(committed)

\* ------------------------------------------------------------------------
\* The repository (GitPython's Repo): read-only during a run.
\*   refs     : repo.references, a sequence of [name, target]
\*   parents  : sha -> sequence of parent shas
\* ------------------------------------------------------------------------
RECURSIVE ReachableFrom(_, _)
ReachableFrom(parents, sha) ==
    {sha} \cup UNION {ReachableFrom(parents, p) : p \in Range(parents[sha])}

\* repo.iter_commits(ref): the commits reachable from the reference
IterCommits(rp, ref) == ReachableFrom(rp.parents, ref.target)

\* Parent lists of commit s: at most two parents, each an older commit.
ParentLists(s) ==
    {<<>>} \cup {<<p>> : p \in 1..(s - 1)}
           \cup {<<p, q>> : <<p, q>> \in {pq \in (1..(s - 1)) \X (1..(s - 1)) : pq[1] < pq[2]}}

Dags == {ps \in [Shas -> UNION {ParentLists(s) : s \in Shas}] :
            \A s \in Shas : ps[s] \in ParentLists(s)}

\* The reference names a repository of the model may hold, in the order
\* repo.references lists them; v1 is a tag, the others are heads and
\* remote-tracking references.
RefNameOrder == << [name |-> <<"origin", "HEAD">>, tag |-> FALSE],
                   [name |-> <<"main">>, tag |-> FALSE],
                   [name |-> <<"origin", "main">>, tag |-> FALSE],
                   [name |-> <<"feature">>, tag |-> FALSE],
                   [name |-> <<"v1">>, tag |-> TRUE] >>

RECURSIVE RefListsFrom(_, _)
RefListsFrom(i, room) ==
    IF i > Len(RefNameOrder) \/ room = 0 THEN {<<>>}
    ELSE RefListsFrom(i + 1, room)
         \cup {<<[name |-> RefNameOrder[i].name, tag |-> RefNameOrder[i].tag,
                  target |-> t]>> \o rest :
                 t \in Shas, rest \in RefListsFrom(i + 1, room - 1)}

RefLists == RefListsFrom(1, MaxRefs)

\* ------------------------------------------------------------------------
\* State
\* ------------------------------------------------------------------------
VARIABLES
    repo,                \* the repository being read
    date_start,          \* config.date_range.start
    date_end,            \* config.date_range.end
    \* _build_branch_membership
    max_workers,         \* its worker-pool size
    task,                \* per reference: the position of its process_ref call
    next_task,           \* the pool's queue: index of the next reference to start
    local_map,           \* per reference: process_ref's local_map
    pending,             \* per reference: local_map items not yet merged
    commit_to_branches,  \* the shared membership index
    lock,                \* 0 when free, else the reference index holding it
    ref_count,
    mb_state,            \* "idle" | "running" | "returned"
    \* collect_git
    pc,                  \* position of the main thread
    future_membership,   \* [state, value] of pool.submit(_build_branch_membership)
    future_numstat,      \* [state, value] of pool.submit(_collect_numstat)
    default_branch,
    branches,
    membership,          \* collect_git's commit_to_branches
    numstat,
    ref_i,               \* index of the reference the walker is on
    yielded,             \* commits iter_commits has yielded for that reference
    seen,
    commits,
    merges,
    \* compute_change_flow
    metrics,             \* the ChangeFlowMetrics, None until computed
    \* _classify_category
    cls_in,              \* its arguments
    cls_out,             \* its result, "pending" until it returns
    \* _median and _percentile
    stat_in,             \* the values and the percentile asked for
    stat_out,            \* the two results, None until they return
    \* _collect_numstat
    stream,              \* the lines of proc.stdout
    npc,                 \* position of the parsing thread
    stats,
    current_sha,
    ins,
    dels,
    files,
    line_count,
    stop_watchdog,       \* the Event: TRUE once set
    wpc                  \* position of the watchdog thread

envVars == <<repo, date_start, date_end>>
mbVars == <<max_workers, task, next_task, local_map, pending,
            commit_to_branches, lock, ref_count, mb_state>>
cgVars == <<pc, future_membership, future_numstat, default_branch, branches,
            membership, numstat, ref_i, yielded, seen, commits, merges>>
flVars == <<metrics>>
clVars == <<cls_in, cls_out>>
stVars == <<stat_in, stat_out>>
nsVars == <<stream, npc, stats, current_sha, ins, dels, files, line_count,
            stop_watchdog, wpc>>
vars == <<envVars, mbVars, cgVars, flVars, clVars, stVars, nsVars>>

EmptyMap == [s \in {} |-> {}]

\* ------------------------------------------------------------------------
\* _build_branch_membership (git.py 241-290)
\* ------------------------------------------------------------------------
MbStart(refs, workers) ==
    /\ max_workers = workers
    /\ task = [i \in DOMAIN refs |-> "queued"]
    /\ next_task = 1
    /\ local_map = [i \in DOMAIN refs |-> EmptyMap]
    /\ pending = [i \in DOMAIN refs |-> {}]
    /\ commit_to_branches = EmptyMap
    /\ lock = 0
    /\ ref_count = 0
    /\ mb_state = "running"

MbIdle ==
    /\ max_workers = 1
    /\ task = <<>>
    /\ next_task = 1
    /\ local_map = <<>>
    /\ pending = <<>>
    /\ commit_to_branches = EmptyMap
    /\ lock = 0
    /\ ref_count = 0
    /\ mb_state = "idle"

Busy == {i \in DOMAIN task : task[i] \in {"waiting", "merging"}}

\* Mutant: commit_to_branches[sha] = {bname}, the last writer wins
SetDefaultAdd_Overwrite(ctb, sha, bname) ==
    [s \in DOMAIN ctb \cup {sha} |-> IF s = sha THEN {bname} ELSE ctb[s]]

\* commit_to_branches.setdefault(sha, set()).add(bname)
SetDefaultAdd(ctb, sha, bname) ==
    [s \in DOMAIN ctb \cup {sha} |->
        IF s = sha THEN (IF sha \in DOMAIN ctb THEN ctb[sha] ELSE {}) \cup {bname}
        ELSE ctb[s]]

\* A pool thread takes the next queued reference and runs process_ref up to
\* the lock: strips the name, returns at once for HEAD, else walks the
\* reference into local_map.
ProcessRefBegin ==
    /\ mb_state = "running"
    /\ next_task <= Len(repo.refs)
    /\ Cardinality(Busy) < max_workers
    /\ LET i == next_task
           branch_name == StripOrigin(repo.refs[i].name)
       IN  /\ next_task' = i + 1
           /\ IF branch_name = HEADName
              THEN /\ task' = [task EXCEPT ![i] = "done"]
                   /\ UNCHANGED local_map
              ELSE /\ task' = [task EXCEPT ![i] = "waiting"]
                   /\ local_map' = [local_map EXCEPT ![i] =
                         [s \in IterCommits(repo, repo.refs[i]) |-> branch_name]]
    /\ UNCHANGED <<max_workers, pending, commit_to_branches, lock, ref_count, mb_state>>
    /\ UNCHANGED <<envVars, cgVars, flVars, clVars, stVars, nsVars>>

\* with lock:
AcquireLock(i) ==
    /\ task[i] = "waiting"
    /\ lock = 0
    /\ lock' = i
    /\ task' = [task EXCEPT ![i] = "merging"]
    /\ pending' = [pending EXCEPT ![i] = DOMAIN local_map[i]]
    /\ UNCHANGED <<max_workers, next_task, local_map, commit_to_branches, ref_count, mb_state>>
    /\ UNCHANGED <<envVars, cgVars, flVars, clVars, stVars, nsVars>>

\* one iteration of: for sha, bname in local_map.items()
MergeEntry(i) ==
    /\ task[i] = "merging"
    /\ lock = i
    /\ \E sha \in pending[i] :
          /\ commit_to_branches' = SetDefaultAdd(commit_to_branches, sha, local_map[i][sha])
          /\ pending' = [pending EXCEPT ![i] = @ \ {sha}]
    /\ UNCHANGED <<max_workers, task, next_task, local_map, lock, ref_count, mb_state>>
    /\ UNCHANGED <<envVars, cgVars, flVars, clVars, stVars, nsVars>>

\* ref_count += 1, then the lock is released and process_ref returns
ReleaseLock(i) ==
    /\ task[i] = "merging"
    /\ lock = i
    /\ pending[i] = {}
    /\ ref_count' = ref_count + 1
    /\ lock' = 0
    /\ task' = [task EXCEPT ![i] = "done"]
    /\ UNCHANGED <<max_workers, next_task, local_map, pending, commit_to_branches, mb_state>>
    /\ UNCHANGED <<envVars, cgVars, flVars, clVars, stVars, nsVars>>

\* list(pool.map(...)) has every result and the pool has shut down
MbReturn ==
    /\ mb_state = "running"
    /\ \A i \in DOMAIN task : task[i] = "done"
    /\ mb_state' = "returned"
    /\ UNCHANGED <<max_workers, task, next_task, local_map, pending,
                   commit_to_branches, lock, ref_count>>
    /\ UNCHANGED <<envVars, cgVars, flVars, clVars, stVars, nsVars>>

\* The map one call returns when its process_ref calls run one after the
\* other in list order (max_workers = 1).
RECURSIVE MergeLocalMap(_, _, _)
MergeLocalMap(ctb, shas, bname) ==
    IF shas = {} THEN ctb
    ELSE LET sha == CHOOSE x \in shas : TRUE
         IN  MergeLocalMap(SetDefaultAdd(ctb, sha, bname), shas \ {sha}, bname)

RECURSIVE build_branch_membership(_, _)
build_branch_membership(rp, n) ==
    IF n = 0 THEN EmptyMap
    ELSE LET before == build_branch_membership(rp, n - 1)
             branch_name == StripOrigin(rp.refs[n].name)
         IN  IF branch_name = HEADName THEN before
             ELSE MergeLocalMap(before, IterCommits(rp, rp.refs[n]), branch_name)

\* ------------------------------------------------------------------------
\* collect_git (git.py 308-449)
\* ------------------------------------------------------------------------
\* lines 318-325
branch_names(rp) == {StripOrigin(r.name) : r \in Range(rp.refs)} \ {HEADName}

\* repo.active_branch raises TypeError when HEAD is detached
Detached == <<>>

\* Mutant: "master" is preferred to the checked-out branch
detect_default_branch_MasterFirst(rp, names) ==
    IF <<"main">> \in names THEN <<"main">>
    ELSE IF <<"master">> \in names THEN <<"master">>
    ELSE IF rp.active # Detached /\ rp.active \in names THEN rp.active
    ELSE IF names # {} THEN SortedFirst(names)
    ELSE <<"main">>

\* _detect_default_branch(repo, branch_names)
detect_default_branch(rp, names) ==
    IF <<"main">> \in names THEN <<"main">>
    ELSE IF rp.active # Detached /\ rp.active \in names THEN rp.active
    ELSE IF <<"master">> \in names THEN <<"master">>
    ELSE IF names # {} THEN SortedFirst(names)
    ELSE <<"main">>

RECURSIVE SortedNames(_)
SortedNames(names) ==
    IF names = {} THEN <<>>
    ELSE <<SortedFirst(names)>> \o SortedNames(names \ {SortedFirst(names)})

\* lines 330-333
MakeBranches(names, default) ==
    [i \in DOMAIN SortedNames(names) |->
        [name |-> SortedNames(names)[i], is_default |-> (SortedNames(names)[i] = default)]]

\* tag_map.get(sha, []): the names of the tags pointing at sha (lines 338-341)
RECURSIVE TagsAt(_, _)
TagsAt(refs, sha) ==
    IF refs = <<>> THEN <<>>
    ELSE (IF Head(refs).tag /\ Head(refs).target = sha THEN <<Head(refs).name>> ELSE <<>>)
         \o TagsAt(Tail(refs), sha)

\* git log --all: every commit reachable from some reference
AllReachable(rp) == UNION {IterCommits(rp, r) : r \in Range(rp.refs)}

\* The table _collect_numstat returns for a complete log
collect_numstat(rp) == [s \in AllReachable(rp) |-> rp.stat[s]]

\* Mutant: the result is taken without waiting for the future
FutureDone_NoWait(fut) == TRUE

\* future.result() returns or raises only once the future has finished
FutureDone(fut) == fut.state # "running"

\* Mutant: a phase's exception is swallowed
AfterResult_Swallow(fut, next) == next

\* where the main thread goes after future.result()
AfterResult(fut, next) == IF fut.state = "raised" THEN "unwinding" ELSE next

\* Mutant: the last name in sorted order is taken
attributed_branch_Last(ctb, sha, default) ==
    LET candidate_branches == IF sha \in DOMAIN ctb THEN ctb[sha] ELSE {default}
        non_default == candidate_branches \ {default}
    IN  IF non_default # {}
        THEN CHOOSE n \in non_default : \A other \in non_default : ~NameLess(n, other)
        ELSE default

\* lines 379-381
attributed_branch(ctb, sha, default) ==
    LET candidate_branches == IF sha \in DOMAIN ctb THEN ctb[sha] ELSE {default}
        non_default == candidate_branches \ {default}
    IN  IF non_default # {} THEN SortedFirst(non_default) ELSE default

\* Mutant: any commit with a parent counts as a merge
is_merge_AnyParent(rp, sha) == Len(rp.parents[sha]) >= 1

\* line 386
is_merge(rp, sha) == Len(rp.parents[sha]) >= 2

\* numstat.get(sha, (0, 0, 0))
NumstatGet(table, sha) ==
    IF sha \in DOMAIN table THEN table[sha] ELSE [ins |-> 0, dels |-> 0, files |-> 0]

\* lines 401-417
MakeCommit(rp, sha, ts, branch, table) ==
    [sha |-> sha,
     timestamp |-> isoformat(ts),
     branch |-> branch,
     parents |-> rp.parents[sha],
     tags |-> TagsAt(rp.refs, sha),
     insertions |-> NumstatGet(table, sha).ins,
     deletions |-> NumstatGet(table, sha).dels,
     files_changed |-> NumstatGet(table, sha).files,
     category |-> classify_category(rp.message[sha].contains, rp.message[sha].conv,
                                    is_merge(rp, sha))]

\* lines 422-427
MakeMerge(sha, ts, branch, default) ==
    [sha |-> sha,
     from_branch |-> (IF branch # default THEN branch ELSE <<"unknown">>),
     to_branch |-> default,
     timestamp |-> isoformat(ts)]

\* rev-list yields the tip first and a commit only after one of its children
CanYield(rp, ref, done, c) ==
    \/ c = ref.target
    \/ \E child \in done : c \in Range(rp.parents[child])

\* lines 430-437: the progress line names total_refs, which collect_git
\* never binds, so formatting it raises NameError
SeenProgressEvery == 500

ProgressRaises(n_seen, slow) == n_seen % SeenProgressEvery = 0 /\ slow

CgIdle ==
    /\ pc = "idle"
    /\ future_membership = [state |-> "none", value |-> EmptyMap]
    /\ future_numstat = [state |-> "none", value |-> EmptyMap]
    /\ default_branch = <<"main">>
    /\ branches = <<>>
    /\ membership = EmptyMap
    /\ numstat = EmptyMap
    /\ ref_i = 1
    /\ yielded = {}
    /\ seen = {}
    /\ commits = <<>>
    /\ merges = <<>>

FlIdle == metrics = None

ClIdle ==
    /\ cls_in = None
    /\ cls_out = "idle"

StIdle ==
    /\ stat_in = None
    /\ stat_out = None

NsIdle ==
    /\ stream = <<>>
    /\ npc = "idle"
    /\ stats = EmptyMap
    /\ current_sha = None
    /\ ins = 0
    /\ dels = 0
    /\ files = 0
    /\ line_count = 0
    /\ stop_watchdog = FALSE
    /\ wpc = "idle"

\* lines 313-350: scan the references, pick the default branch, submit the
\* two phases to the pool
CollectBegin ==
    /\ pc = "start"
    /\ default_branch' = detect_default_branch(repo, branch_names(repo))
    /\ branches' = MakeBranches(branch_names(repo), default_branch')
    /\ future_membership' = [state |-> "running", value |-> EmptyMap]
    /\ future_numstat' = [state |-> "running", value |-> EmptyMap]
    /\ pc' = "result_membership"
    /\ UNCHANGED <<membership, numstat, ref_i, yielded, seen, commits, merges>>
    /\ UNCHANGED <<envVars, mbVars, flVars, clVars, stVars, nsVars>>

\* the pool thread running _build_branch_membership returns
MembershipCompletes ==
    /\ future_membership.state = "running"
    /\ future_membership' = [state |-> "done",
                             value |-> build_branch_membership(repo, Len(repo.refs))]
    /\ UNCHANGED <<pc, future_numstat, default_branch, branches, membership, numstat,
                   ref_i, yielded, seen, commits, merges>>
    /\ UNCHANGED <<envVars, mbVars, flVars, clVars, stVars, nsVars>>

\* ... or raises (a git command of a traversal fails)
MembershipRaises ==
    /\ future_membership.state = "running"
    /\ future_membership' = [state |-> "raised", value |-> EmptyMap]
    /\ UNCHANGED <<pc, future_numstat, default_branch, branches, membership, numstat,
                   ref_i, yielded, seen, commits, merges>>
    /\ UNCHANGED <<envVars, mbVars, flVars, clVars, stVars, nsVars>>

\* the pool thread running _collect_numstat returns
NumstatCompletes ==
    /\ future_numstat.state = "running"
    /\ future_numstat' = [state |-> "done", value |-> collect_numstat(repo)]
    /\ UNCHANGED <<pc, future_membership, default_branch, branches, membership, numstat,
                   ref_i, yielded, seen, commits, merges>>
    /\ UNCHANGED <<envVars, mbVars, flVars, clVars, stVars, nsVars>>

\* ... or raises (Popen cannot start git)
NumstatRaises ==
    /\ future_numstat.state = "running"
    /\ future_numstat' = [state |-> "raised", value |-> EmptyMap]
    /\ UNCHANGED <<pc, future_membership, default_branch, branches, membership, numstat,
                   ref_i, yielded, seen, commits, merges>>
    /\ UNCHANGED <<envVars, mbVars, flVars, clVars, stVars, nsVars>>

\* line 351: commit_to_branches = future_membership.result()
ResultMembership ==
    /\ pc = "result_membership"
    /\ FutureDone(future_membership)
    /\ membership' = future_membership.value
    /\ pc' = AfterResult(future_membership, "result_numstat")
    /\ UNCHANGED <<future_membership, future_numstat, default_branch, branches, numstat,
                   ref_i, yielded, seen, commits, merges>>
    /\ UNCHANGED <<envVars, mbVars, flVars, clVars, stVars, nsVars>>

\* line 352: numstat = future_numstat.result()
ResultNumstat ==
    /\ pc = "result_numstat"
    /\ FutureDone(future_numstat)
    /\ numstat' = future_numstat.value
    /\ pc' = AfterResult(future_numstat, "exit_pool")
    /\ UNCHANGED <<future_membership, future_numstat, default_branch, branches, membership,
                   ref_i, yielded, seen, commits, merges>>
    /\ UNCHANGED <<envVars, mbVars, flVars, clVars, stVars, nsVars>>

\* leaving the with block: pool.shutdown(wait=True) joins both threads, then
\* the walk starts (lines 356-365) or the exception leaves collect_git
PoolExit ==
    /\ pc \in {"exit_pool", "unwinding"}
    /\ future_membership.state # "running"
    /\ future_numstat.state # "running"
    /\ pc' = IF pc = "unwinding" THEN "raised" ELSE "walk"
    /\ ref_i' = 1
    /\ yielded' = {}
    /\ seen' = {}
    /\ commits' = <<>>
    /\ merges' = <<>>
    /\ UNCHANGED <<future_membership, future_numstat, default_branch, branches,
                   membership, numstat>>
    /\ UNCHANGED <<envVars, mbVars, flVars, clVars, stVars, nsVars>>

\* one iteration of the inner loop (lines 369-437)
WalkCommit ==
    /\ pc = "walk"
    /\ ref_i <= Len(repo.refs)
    /\ \E c \in IterCommits(repo, repo.refs[ref_i]) \ yielded, slow \in BOOLEAN :
          /\ CanYield(repo, repo.refs[ref_i], yielded, c)
          /\ yielded' = yielded \cup {c}
          /\ IF c \in seen
             THEN UNCHANGED <<pc, seen, commits, merges>>
             ELSE LET ts == commit_timestamp(repo.committed[c])
                      branch == attributed_branch(membership, c, default_branch)
                  IN  /\ seen' = seen \cup {c}
                      /\ IF ~in_date_range(ts, date_start, date_end)
                         THEN UNCHANGED <<pc, commits, merges>>
                         ELSE /\ commits' = Append(commits,
                                       MakeCommit(repo, c, ts, branch, numstat))
                              /\ merges' = IF is_merge(repo, c)
                                           THEN Append(merges,
                                                  MakeMerge(c, ts, branch, default_branch))
                                           ELSE merges
                              /\ pc' = IF ProgressRaises(Cardinality(seen'), slow)
                                       THEN "raised" ELSE pc
    /\ UNCHANGED <<future_membership, future_numstat, default_branch, branches,
                   membership, numstat, ref_i>>
    /\ UNCHANGED <<envVars, mbVars, flVars, clVars, stVars, nsVars>>

\* the inner loop is exhausted: the outer loop takes the next reference
WalkNextRef ==
    /\ pc = "walk"
    /\ ref_i <= Len(repo.refs)
    /\ yielded = IterCommits(repo, repo.refs[ref_i])
    /\ ref_i' = ref_i + 1
    /\ yielded' = {}
    /\ UNCHANGED <<pc, future_membership, future_numstat, default_branch, branches,
                   membership, numstat, seen, commits, merges>>
    /\ UNCHANGED <<envVars, mbVars, flVars, clVars, stVars, nsVars>>

\* lines 445-449: sort both lists and return
WalkFinish ==
    /\ pc = "walk"
    /\ ref_i > Len(repo.refs)
    /\ commits' = SortByTimestamp(commits)
    /\ merges' = SortByTimestamp(merges)
    /\ pc' = "returned"
    /\ UNCHANGED <<future_membership, future_numstat, default_branch, branches,
                   membership, numstat, ref_i, yielded, seen>>
    /\ UNCHANGED <<envVars, mbVars, flVars, clVars, stVars, nsVars>>

\* ------------------------------------------------------------------------
\* compute_change_flow (change_flow.py 61-390).  A duration is kept in
\* ticks; the code's value in days is ticks / TicksPerDay.
\* ------------------------------------------------------------------------
\* round(num / den, 0) for den > 0: to the nearest integer, a tie to the even
\* one (the quotients that tie here are exact binary fractions)
RoundHalfEven(num, den) ==
    LET q == num \div den
        r == num % den
    IN  IF 2 * r < den THEN q
        ELSE IF 2 * r > den THEN q + 1
        ELSE IF q % 2 = 0 THEN q ELSE q + 1

\* round(ticks / TicksPerDay, 1) in tenths of a day, round(.., 2) in hundredths
RoundTenths(ticks) == RoundHalfEven(ticks * 10, TicksPerDay)
RoundHundredths(ticks) == RoundHalfEven(ticks * 100, TicksPerDay)

\* _find_default_branch(branches)
RECURSIVE find_default_branch(_)
find_default_branch(bs) ==
    IF bs = <<>> THEN <<"main">>
    ELSE IF Head(bs).is_default THEN Head(bs).name
    ELSE find_default_branch(Tail(bs))

\* Mutant: the first merge of each source branch is kept
RECURSIVE merge_by_from_branch_First(_)
merge_by_from_branch_First(ms) ==
    IF ms = <<>> THEN [b \in {} |-> <<>>]
    ELSE LET before == merge_by_from_branch_First(SubSeq(ms, 1, Len(ms) - 1))
             m == ms[Len(ms)]
         IN  IF m.from_branch \notin DOMAIN before
             THEN [b \in DOMAIN before \cup {m.from_branch} |->
                      IF b = m.from_branch THEN m ELSE before[b]]
             ELSE before

\* lines 72-78: the latest merge of each source branch (the first one on a tie)
RECURSIVE merge_by_from_branch(_)
merge_by_from_branch(ms) ==
    IF ms = <<>> THEN [b \in {} |-> <<>>]
    ELSE LET before == merge_by_from_branch(SubSeq(ms, 1, Len(ms) - 1))
             m == ms[Len(ms)]
         IN  IF \/ m.from_branch \notin DOMAIN before
                \/ Instant(parse_ts(m.timestamp))
                      > Instant(parse_ts(before[m.from_branch].timestamp))
             THEN [b \in DOMAIN before \cup {m.from_branch} |->
                      IF b = m.from_branch THEN m ELSE before[b]]
             ELSE before

\* sum(...) over a sequence of integers
RECURSIVE SumSeq(_)
SumSeq(xs) == IF xs = <<>> THEN 0 ELSE Head(xs) + SumSeq(Tail(xs))

\* the keys of a dict filled in list order: the distinct values of keys,
\* in order of first appearance
RECURSIVE InsertionOrder(_)
InsertionOrder(keys) ==
    IF keys = <<>> THEN <<>>
    ELSE LET before == InsertionOrder(SubSeq(keys, 1, Len(keys) - 1))
             k == keys[Len(keys)]
         IN  IF k \in Range(before) THEN before ELSE Append(before, k)

BranchesOf(cs) == [i \in DOMAIN cs |-> cs[i].branch]

\* min(timestamps) / max(timestamps): the first extreme value in list order
RECURSIVE MinDatetime(_)
MinDatetime(dts) ==
    IF Len(dts) = 1 THEN dts[1]
    ELSE LET rest == MinDatetime(Tail(dts))
         IN  IF Instant(rest) < Instant(Head(dts)) THEN rest ELSE Head(dts)

RECURSIVE MaxDatetime(_)
MaxDatetime(dts) ==
    IF Len(dts) = 1 THEN dts[1]
    ELSE LET rest == MaxDatetime(Tail(dts))
         IN  IF Instant(rest) > Instant(Head(dts)) THEN rest ELSE Head(dts)

Timestamps(cs) == [i \in DOMAIN cs |-> parse_ts(cs[i].timestamp)]

\* Mutant: the default branch's commits are grouped too
non_default_branches_All(cs, default) ==
    InsertionOrder(BranchesOf(cs))

\* lines 123-126: the keys of non_default_commits
non_default_branches(cs, default) ==
    InsertionOrder(BranchesOf(SelectSeq(cs, LAMBDA c : c.branch # default)))

\* lines 133-157: one BranchLifespan
branch_lifespan(cs, by_from, branch_name) ==
    LET bcommits == SelectSeq(cs, LAMBDA c : c.branch = branch_name)
        first == MinDatetime(Timestamps(bcommits))
        last == MaxDatetime(Timestamps(bcommits))
        merged == branch_name \in DOMAIN by_from
    IN  [branch |-> branch_name,
         first_commit |-> isoformat(first),
         last_commit |-> isoformat(last),
         lifespan_ticks |-> IF merged
                            THEN Instant(parse_ts(by_from[branch_name].timestamp)) - Instant(first)
                            ELSE Instant(last) - Instant(first),
         lifespan_days |-> RoundTenths(IF merged
                            THEN Instant(parse_ts(by_from[branch_name].timestamp)) - Instant(first)
                            ELSE Instant(last) - Instant(first)),
         merged |-> merged,
         commit_count |-> Len(bcommits)]

\* branch_lifespans.sort(key=lambda b: b.first_commit)
RECURSIVE InsertByFirstCommit(_, _)
InsertByFirstCommit(sorted, x) ==
    IF sorted = <<>> THEN <<x>>
    ELSE IF StrLess(x.first_commit, sorted[Len(sorted)].first_commit)
         THEN Append(InsertByFirstCommit(SubSeq(sorted, 1, Len(sorted) - 1), x),
                     sorted[Len(sorted)])
         ELSE Append(sorted, x)

RECURSIVE SortByFirstCommit(_)
SortByFirstCommit(xs) ==
    IF xs = <<>> THEN <<>>
    ELSE InsertByFirstCommit(SortByFirstCommit(SubSeq(xs, 1, Len(xs) - 1)), xs[Len(xs)])

RECURSIVE MaxOf(_, _)
MaxOf(xs, least) == IF xs = <<>> THEN least ELSE Max2(Head(xs), MaxOf(Tail(xs), least))

\* sorted(values)
RECURSIVE InsertSorted(_, _)
InsertSorted(sorted, x) ==
    IF sorted = <<>> THEN <<x>>
    ELSE IF x < sorted[Len(sorted)]
         THEN Append(InsertSorted(SubSeq(sorted, 1, Len(sorted) - 1), x), sorted[Len(sorted)])
         ELSE Append(sorted, x)

RECURSIVE Sorted(_)
Sorted(xs) ==
    IF xs = <<>> THEN <<>>
    ELSE InsertSorted(Sorted(SubSeq(xs, 1, Len(xs) - 1)), xs[Len(xs)])

\* _median(values), as a fraction [num, den] of the values' unit
median(values) ==
    LET s == Sorted(values)
        n == Len(s)
    IN  IF n = 0 THEN [num |-> 0, den |-> 1]
        ELSE IF n % 2 = 1 THEN [num |-> s[n \div 2 + 1], den |-> 1]
        ELSE [num |-> s[n \div 2] + s[n \div 2 + 1], den |-> 2]

\* Mutant: the lower neighbour is returned, without interpolation
percentile_Lower(values, p) ==
    LET s == Sorted(values)
        lo == (p * (Len(s) - 1)) \div 100
    IN  IF values = <<>> THEN [num |-> 0, den |-> 1]
        ELSE [num |-> s[lo + 1] * 100, den |-> 100]

\* _percentile(values, p), as a fraction [num, den] of the values' unit
percentile(values, p) ==
    LET s == Sorted(values)
        idx100 == p * (Len(s) - 1)
        lo == idx100 \div 100
        hi == Min2(lo + 1, Len(s) - 1)
        frac100 == idx100 - 100 * lo
    IN  IF values = <<>> THEN [num |-> 0, den |-> 1]
        ELSE [num |-> s[lo + 1] * (100 - frac100) + s[hi + 1] * frac100, den |-> 100]

\* round(count / total * 100, 1) in tenths of a percent, 0.0 for an empty list
PercentTenths(count, total) ==
    IF total = 0 THEN 0 ELSE RoundHalfEven(count * 1000, total)

CountWithin(values, days) ==
    Cardinality({i \in DOMAIN values : values[i] <= days * TicksPerDay})

\* lines 122-159 and 357-360
branch_lifespans_section(cs, by_from, default) ==
    LET names == non_default_branches(cs, default)
        spans == [i \in DOMAIN names |-> branch_lifespan(cs, by_from, names[i])]
    IN  [branch_lifespans |-> SortByFirstCommit(spans),
         all_lifespans |-> [i \in DOMAIN spans |-> spans[i].lifespan_ticks],
         branch_unmerged_count |-> Cardinality({i \in DOMAIN spans : ~spans[i].merged}),
         branch_median_lifespan |->
             RoundHalfEven(median([i \in DOMAIN spans |-> spans[i].lifespan_ticks]).num * 10,
                           median([i \in DOMAIN spans |-> spans[i].lifespan_ticks]).den
                               * TicksPerDay),
         branch_longest_days |->
             RoundTenths(MaxOf([i \in DOMAIN spans |-> spans[i].lifespan_ticks], 0))]

\* lines 81-84: sorted((parse_ts(c.timestamp), c.tags[0]) for c in commits if c.tags)
TagTupleLess(a, b) ==
    \/ Instant(a.ts) < Instant(b.ts)
    \/ Instant(a.ts) = Instant(b.ts) /\ NameLess(a.tag, b.tag)

RECURSIVE InsertTagTuple(_, _)
InsertTagTuple(sorted, x) ==
    IF sorted = <<>> THEN <<x>>
    ELSE IF TagTupleLess(x, sorted[Len(sorted)])
         THEN Append(InsertTagTuple(SubSeq(sorted, 1, Len(sorted) - 1), x), sorted[Len(sorted)])
         ELSE Append(sorted, x)

RECURSIVE tagged_commits(_)
tagged_commits(cs) ==
    IF cs = <<>> THEN <<>>
    ELSE LET before == tagged_commits(SubSeq(cs, 1, Len(cs) - 1))
             c == cs[Len(cs)]
         IN  IF c.tags # <<>>
             THEN InsertTagTuple(before, [ts |-> parse_ts(c.timestamp), tag |-> c.tags[1]])
             ELSE before

\* bisect.bisect_left(tag_timestamps, ct)
bisect_left(tagged, ct) ==
    Cardinality({i \in DOMAIN tagged : Instant(tagged[i].ts) < Instant(ct)})

\* lines 100-108: the latency of one commit, None when no release follows it
release_latency(tagged, c) ==
    LET ct == parse_ts(c.timestamp)
        idx == bisect_left(tagged, ct)
    IN  IF idx < Len(tagged)
        THEN [kind |-> "float", ticks |-> Instant(tagged[idx + 1].ts) - Instant(ct)]
        ELSE None

RECURSIVE ReleasedLatencies(_, _)
ReleasedLatencies(tagged, cs) ==
    IF cs = <<>> THEN <<>>
    ELSE LET l == release_latency(tagged, Head(cs))
         IN  (IF l # None THEN <<l.ticks>> ELSE <<>>) \o ReleasedLatencies(tagged, Tail(cs))

\* lines 96-118: the entry of one date
release_day_entry(tagged, cs, d) ==
    LET day_commits == SelectSeq(cs, LAMBDA c : to_date(c.timestamp) = d)
        latencies == ReleasedLatencies(tagged, day_commits)
    IN  [date |-> d,
         avg_days_to_release |->
             IF latencies # <<>>
             THEN RoundHalfEven(SumSeq(latencies) * 10, Len(latencies) * TicksPerDay)
             ELSE -10,
         commit_count |-> Len(day_commits),
         unreleased_count |-> Len(day_commits) - Len(latencies)]

RECURSIVE ConcatAll(_)
ConcatAll(xss) == IF xss = <<>> THEN <<>> ELSE Head(xss) \o ConcatAll(Tail(xss))

\* lines 86-120 and 352-356
release_latency_section(cs, tagged) ==
    LET all_dates == Sorted(InsertionOrder([i \in DOMAIN cs |-> to_date(cs[i].timestamp)]))
        all_release_latencies ==
            ConcatAll([k \in DOMAIN all_dates |->
                ReleasedLatencies(tagged,
                    SelectSeq(cs, LAMBDA c : to_date(c.timestamp) = all_dates[k]))])
        med == median(all_release_latencies)
        p90 == percentile(all_release_latencies, 90)
    IN  [commit_to_release_days |->
             [k \in DOMAIN all_dates |-> release_day_entry(tagged, cs, all_dates[k])],
         release_median_latency |-> RoundHalfEven(med.num * 10, med.den * TicksPerDay),
         release_p90_latency |-> RoundHalfEven(p90.num * 10, p90.den * TicksPerDay),
         release_pct_within_7d |->
             PercentTenths(CountWithin(all_release_latencies, 7), Len(all_release_latencies))]

\* Mutant: a day with commits counts one
day_commit_count_AtMostOne(cs, day) ==
    IF \E i \in DOMAIN cs : to_date(cs[i].timestamp) = day THEN 1 ELSE 0

\* lines 167-172: day_commit_counts.get(day, 0)
day_commit_count(cs, day) ==
    Cardinality({i \in DOMAIN cs : to_date(cs[i].timestamp) = day})

\* line 179: the most common category of the day, the first one counted on a
\* tie, "other" on a day without commits
dominant_category(cs, day) ==
    LET day_commits == SelectSeq(cs, LAMBDA c : to_date(c.timestamp) = day)
        cats == InsertionOrder([i \in DOMAIN day_commits |-> day_commits[i].category])
        CountOf(cat) == Cardinality({i \in DOMAIN day_commits : day_commits[i].category = cat})
        best == CHOOSE k \in DOMAIN cats :
                    /\ \A j \in DOMAIN cats : CountOf(cats[j]) <= CountOf(cats[k])
                    /\ \A j \in 1..(k - 1) : CountOf(cats[j]) < CountOf(cats[k])
    IN  IF cats = <<>> THEN "other" ELSE cats[best]

min_date(cs) == DateOf(MinDatetime(Timestamps(cs)))
max_date(cs) == DateOf(MaxDatetime(Timestamps(cs)))

\* lines 174-184
daily_velocity(cs) ==
    [i \in 1..(max_date(cs) - min_date(cs) + 1) |->
        [date |-> min_date(cs) + i - 1,
         count |-> day_commit_count(cs, min_date(cs) + i - 1),
         dominant_category |-> dominant_category(cs, min_date(cs) + i - 1)]]

\* lines 187-192: the average in hundredths
rolling_7day_avg(velocity) ==
    [i \in DOMAIN velocity |->
        LET start == Max2(1, i - 6)
            window == [k \in 1..(i - start + 1) |-> velocity[start + k - 1].count]
        IN  [date |-> velocity[i].date,
             avg |-> RoundHalfEven(SumSeq(window) * 100, Len(window))]]

\* Mutant: a drought needs more than seven days
drought_long_enough_Strict(drought_len) == drought_len > 7

\* lines 205 and 217: drought_len >= 7
drought_long_enough(drought_len) == drought_len >= 7

DateValue(day) == [kind |-> "date", day |-> day]

\* lines 200-214: the body of the scan for one day
drought_step(st, day, count) ==
    IF count = 0
    THEN [st EXCEPT !.drought_start = IF st.drought_start = None THEN DateValue(day) ELSE @,
                    !.drought_len = @ + 1]
    ELSE [drought_start |-> None,
          drought_len |-> 0,
          drought_periods |->
              IF st.drought_start # None /\ drought_long_enough(st.drought_len)
              THEN Append(st.drought_periods,
                          [start_date |-> st.drought_start.day,
                           end_date |-> day - 1,
                           duration_days |-> st.drought_len])
              ELSE st.drought_periods]

\* lines 195-215: the scan over the days first..last
RECURSIVE drought_scan(_, _, _)
drought_scan(cs, first, last) ==
    IF last < first
    THEN [drought_start |-> None, drought_len |-> 0, drought_periods |-> <<>>]
    ELSE drought_step(drought_scan(cs, first, last - 1), last, day_commit_count(cs, last))

\* lines 195-224, with the trailing drought
drought_periods(cs) ==
    LET st == drought_scan(cs, min_date(cs), max_date(cs))
    IN  IF st.drought_start # None /\ drought_long_enough(st.drought_len)
        THEN Append(st.drought_periods,
                    [start_date |-> st.drought_start.day,
                     end_date |-> max_date(cs),
                     duration_days |-> st.drought_len])
        ELSE st.drought_periods

\* lines 161-227 and 361-366
velocity_section(cs) ==
    LET periods == drought_periods(cs)
        durations == [i \in DOMAIN periods |-> periods[i].duration_days]
    IN  [daily_velocity |-> daily_velocity(cs),
         rolling_7day_avg |-> rolling_7day_avg(daily_velocity(cs)),
         drought_periods |-> periods,
         drought_count |-> Len(periods),
         longest_drought_days |-> MaxOf(durations, 0),
         total_drought_days |-> SumSeq(durations)]

\* Mutant: only the added lines are counted
commit_lines_InsertionsOnly(c) == c.insertions

\* lines 236 and 322: lines = c.insertions + c.deletions
commit_lines(c) == c.insertions + c.deletions

\* Mutant: a negative latency is kept
clamp_days_Keep(ticks) == ticks

\* lines 241-242: if days < 0: days = 0.0
clamp_days(ticks) == IF ticks < 0 THEN 0 ELSE ticks

\* lines 238-240 and 324-326: merge_ts - commit_ts
ticks_to_merge(by_from, c) ==
    Instant(parse_ts(by_from[c.branch].timestamp)) - Instant(parse_ts(c.timestamp))

\* lines 233-262: the entry of one commit off the default branch
merge_latency_entry(by_from, c) ==
    [sha |-> c.sha,
     commit_date |-> c.timestamp,
     days_to_merge |->
         IF c.branch \in DOMAIN by_from
         THEN [kind |-> "float",
               hundredths |-> RoundHundredths(clamp_days(ticks_to_merge(by_from, c)))]
         ELSE None,
     lines_changed |-> commit_lines(c),
     category |-> c.category]

\* lines 229-265 and 367-374
merge_latency_section(cs, by_from, default) ==
    LET off == SelectSeq(cs, LAMBDA c : c.branch # default)
        were_merged == SelectSeq(off, LAMBDA c : c.branch \in DOMAIN by_from)
        merge_latencies == [i \in DOMAIN were_merged |->
                                clamp_days(ticks_to_merge(by_from, were_merged[i]))]
        med == median(merge_latencies)
    IN  [commit_merge_latency |-> [i \in DOMAIN off |-> merge_latency_entry(by_from, off[i])],
         merge_median_latency |-> RoundHalfEven(med.num * 10, med.den * TicksPerDay),
         merge_pct_within_7d |->
             PercentTenths(CountWithin(merge_latencies, 7), Len(merge_latencies)),
         merge_pct_within_30d |->
             PercentTenths(CountWithin(merge_latencies, 30), Len(merge_latencies))]

\* Mutant: every gap is measured from the first tagged commit
interval_values_FromFirst(tagged) ==
    [i \in 1..(Len(tagged) - 1) |-> Instant(tagged[i + 1].ts) - Instant(tagged[1].ts)]

\* lines 271-281: the gaps between consecutive tagged commits, in ticks
interval_values(tagged) ==
    [i \in 1..(Len(tagged) - 1) |-> Instant(tagged[i + 1].ts) - Instant(tagged[i].ts)]

\* lines 276-280
release_intervals(tagged) ==
    [i \in 1..(Len(tagged) - 1) |->
        [tag |-> tagged[i + 1].tag,
         date |-> isoformat(tagged[i + 1].ts),
         days_since_previous |-> RoundTenths(interval_values(tagged)[i])]]

\* lines 286-293
bins_def == <<
    [label |-> "0-7d", lo |-> 0, hi |-> 7],
    [label |-> "7-14d", lo |-> 7, hi |-> 14],
    [label |-> "14-30d", lo |-> 14, hi |-> 30],
    [label |-> "30-60d", lo |-> 30, hi |-> 60],
    [label |-> "60-90d", lo |-> 60, hi |-> 90],
    [label |-> "90+d", lo |-> 90, hi |-> 999999] >>

\* line 295: lo <= v < hi, v in days
in_bin(bin, v) == bin.lo * TicksPerDay <= v /\ v < bin.hi * TicksPerDay

\* lines 284-298
release_interval_distribution(values) ==
    IF values = <<>> THEN <<>>
    ELSE [b \in DOMAIN bins_def |->
            [label |-> bins_def[b].label,
             min_val |-> bins_def[b].lo,
             max_val |-> bins_def[b].hi,
             count |-> Cardinality({i \in DOMAIN values : in_bin(bins_def[b], values[i])})]]

\* lines 267-308 and 375-380, the mean, the median and the longest gap in
\* tenths of a day
release_interval_section(tagged) ==
    LET values == interval_values(tagged)
        med == median(values)
    IN  [release_intervals |-> release_intervals(tagged),
         release_interval_distribution |-> release_interval_distribution(values),
         release_interval_mean |->
             IF values # <<>>
             THEN RoundHalfEven(SumSeq(values) * 10, Len(values) * TicksPerDay)
             ELSE 0,
         release_interval_median |-> RoundHalfEven(med.num * 10, med.den * TicksPerDay),
         release_interval_longest_gap |-> RoundTenths(MaxOf(values, 0))]

\* lines 323-338: the merge speed of a commit off the default branch
merge_speed(by_from, c) ==
    IF c.branch \in DOMAIN by_from
    THEN IF ticks_to_merge(by_from, c) <= 7 * TicksPerDay THEN "fast" ELSE "slow"
    ELSE "unmerged"

EmptyDisposition ==
    [fast_merged_lines |-> 0, slow_merged_lines |-> 0, unmerged_lines |-> 0,
     fast_merged_commits |-> 0, slow_merged_commits |-> 0, unmerged_commits |-> 0,
     segment_agg |-> [k \in {} |-> <<>>]]

\* lines 319-341: the body of the loop for one commit
work_disposition_step(acc, c, by_from, default) ==
    IF c.branch = default THEN acc
    ELSE LET lines == commit_lines(c)
             speed == merge_speed(by_from, c)
             key == <<c.category, speed>>
             prev == IF key \in DOMAIN acc.segment_agg THEN acc.segment_agg[key]
                     ELSE [lines |-> 0, count |-> 0]
             agg == [k \in DOMAIN acc.segment_agg \cup {key} |->
                        IF k = key THEN [lines |-> prev.lines + lines, count |-> prev.count + 1]
                        ELSE acc.segment_agg[k]]
         IN  CASE speed = "fast" ->
                    [acc EXCEPT !.fast_merged_lines = @ + lines,
                                !.fast_merged_commits = @ + 1,
                                !.segment_agg = agg]
               [] speed = "slow" ->
                    [acc EXCEPT !.slow_merged_lines = @ + lines,
                                !.slow_merged_commits = @ + 1,
                                !.segment_agg = agg]
               [] speed = "unmerged" ->
                    [acc EXCEPT !.unmerged_lines = @ + lines,
                                !.unmerged_commits = @ + 1,
                                !.segment_agg = agg]

RECURSIVE work_disposition_loop(_, _, _)
work_disposition_loop(cs, by_from, default) ==
    IF cs = <<>> THEN EmptyDisposition
    ELSE work_disposition_step(work_disposition_loop(SubSeq(cs, 1, Len(cs) - 1), by_from, default),
                               cs[Len(cs)], by_from, default)

\* the order of the category and speed strings
WordOrder == <<"bugfix", "ci", "conflict", "docs", "fast", "feature", "merge", "other",
               "refactor", "release", "slow", "squash", "test", "unmerged">>

WordRank(w) == CHOOSE i \in DOMAIN WordOrder : WordOrder[i] = w

SegmentKeyLess(a, b) ==
    \/ WordRank(a[1]) < WordRank(b[1])
    \/ a[1] = b[1] /\ WordRank(a[2]) < WordRank(b[2])

\* sorted(segment_agg.items())
RECURSIVE SortedSegmentKeys(_)
SortedSegmentKeys(keys) ==
    IF keys = {} THEN <<>>
    ELSE LET least == CHOOSE k \in keys : \A j \in keys \ {k} : SegmentKeyLess(k, j)
         IN  <<least>> \o SortedSegmentKeys(keys \ {least})

\* lines 310-348 and 381-389
work_disposition(cs, by_from, default) ==
    LET acc == work_disposition_loop(cs, by_from, default)
        keys == SortedSegmentKeys(DOMAIN acc.segment_agg)
    IN  [fast_merged_lines |-> acc.fast_merged_lines,
         slow_merged_lines |-> acc.slow_merged_lines,
         unmerged_lines |-> acc.unmerged_lines,
         fast_merged_commits |-> acc.fast_merged_commits,
         slow_merged_commits |-> acc.slow_merged_commits,
         unmerged_commits |-> acc.unmerged_commits,
         segments |-> [i \in DOMAIN keys |->
                          [category |-> keys[i][1],
                           merge_speed |-> keys[i][2],
                           lines_changed |-> acc.segment_agg[keys[i]].lines,
                           commit_count |-> acc.segment_agg[keys[i]].count]]]

\* ChangeFlowMetrics(): the result for an empty commit list (line 67)
DefaultMetrics ==
    [release |-> [commit_to_release_days |-> <<>>, release_median_latency |-> 0,
                  release_p90_latency |-> 0, release_pct_within_7d |-> 0],
     lifespans |-> [branch_lifespans |-> <<>>, all_lifespans |-> <<>>,
                    branch_unmerged_count |-> 0, branch_median_lifespan |-> 0,
                    branch_longest_days |-> 0],
     velocity |-> [daily_velocity |-> <<>>, rolling_7day_avg |-> <<>>,
                   drought_periods |-> <<>>, drought_count |-> 0,
                   longest_drought_days |-> 0, total_drought_days |-> 0],
     merge_latency |-> [commit_merge_latency |-> <<>>, merge_median_latency |-> 0,
                        merge_pct_within_7d |-> 0, merge_pct_within_30d |-> 0],
     intervals |-> [release_intervals |-> <<>>, release_interval_distribution |-> <<>>,
                    release_interval_mean |-> 0, release_interval_median |-> 0,
                    release_interval_longest_gap |-> 0],
     work_disposition |-> [fast_merged_lines |-> 0, slow_merged_lines |-> 0,
                           unmerged_lines |-> 0, fast_merged_commits |-> 0,
                           slow_merged_commits |-> 0, unmerged_commits |-> 0,
                           segments |-> <<>>]]

\* compute_change_flow(commits, merges, branches)
compute_change_flow(cs, ms, bs) ==
    LET default == find_default_branch(bs)
        by_from == merge_by_from_branch(ms)
        tagged == tagged_commits(cs)
    IN  IF cs = <<>> THEN DefaultMetrics
        ELSE [release |-> release_latency_section(cs, tagged),
              lifespans |-> branch_lifespans_section(cs, by_from, default),
              velocity |-> velocity_section(cs),
              merge_latency |-> merge_latency_section(cs, by_from, default),
              intervals |-> release_interval_section(tagged),
              work_disposition |-> work_disposition(cs, by_from, default)]

\* cli.py 70-75: the change-flow phase on what collect_git returned
ChangeFlowPhase ==
    /\ pc = "returned"
    /\ metrics' = compute_change_flow(commits, merges, branches)
    /\ pc' = "done"
    /\ UNCHANGED <<future_membership, future_numstat, default_branch, branches,
                   membership, numstat, ref_i, yielded, seen, commits, merges>>
    /\ UNCHANGED <<envVars, mbVars, clVars, stVars, nsVars>>

\* change_flow.py 267-308 on its own: the release-interval section reads
\* nothing but the tagged commits
ReleaseIntervalSection ==
    /\ pc = "release_intervals"
    /\ metrics' = [intervals |-> release_interval_section(tagged_commits(commits))]
    /\ pc' = "work_disposition"
    /\ UNCHANGED <<future_membership, future_numstat, default_branch, branches,
                   membership, numstat, ref_i, yielded, seen, commits, merges>>
    /\ UNCHANGED <<envVars, mbVars, clVars, stVars, nsVars>>

\* git.py 397-398: one call of _classify_category
Classify ==
    /\ cls_out = "pending"
    /\ cls_out' = classify_category(cls_in.msg_lower, cls_in.conventional_type,
                                    cls_in.is_merge_commit)
    /\ UNCHANGED cls_in
    /\ UNCHANGED <<envVars, mbVars, cgVars, flVars, stVars, nsVars>>

\* change_flow.py 33-51: one call of _median and one of _percentile
StatHelpers ==
    /\ stat_in # None
    /\ stat_out = None
    /\ stat_out' = [median |-> median(stat_in.values),
                    percentile |-> percentile(stat_in.values, stat_in.p)]
    /\ UNCHANGED stat_in
    /\ UNCHANGED <<envVars, mbVars, cgVars, flVars, clVars, nsVars>>

\* ------------------------------------------------------------------------
\* _collect_numstat (git.py 148-238): the parser loop and its watchdog thread
\* ------------------------------------------------------------------------
\* A line of the output of git log --numstat --format=%H after line.strip():
\* its length, whether all its characters are in "0123456789abcdef", the
\* commit it names when it is a SHA, and its fields between tabs.

\* line 194: if not line
is_blank(line) == line.chars = 0

\* line 198: len(line) == 40 and all(c in "0123456789abcdef" for c in line)
is_sha_line(line) == line.chars = 40 /\ line.lowerhex

\* int(text) on the fields of the model; a field outside the table raises
\* ValueError
IntValue == ("0" :> 0) @@ ("1" :> 1) @@ ("3" :> 3) @@ ("-2" :> (0 - 2))

\* lines 216-217: int(parts[k]) if parts[k] != "-" else 0
field_value(field) ==
    IF field = "-" THEN [ok |-> TRUE, value |-> 0]
    ELSE IF field \in DOMAIN IntValue
         THEN [ok |-> TRUE, value |-> IntValue[field]]
         ELSE [ok |-> FALSE, value |-> 0]

\* stats[current_sha] = (ins, dels, files)
flush(table, sha, i, d, f) ==
    [k \in DOMAIN table \cup {sha} |->
        IF k = sha THEN [ins |-> i, dels |-> d, files |-> f] ELSE table[k]]

\* lines 174-190: the watchdog thread is started
StartWatcher ==
    /\ npc = "start"
    /\ npc' = "loop"
    /\ wpc' = "test"
    /\ UNCHANGED <<stream, stats, current_sha, ins, dels, files, line_count, stop_watchdog>>
    /\ UNCHANGED <<envVars, mbVars, cgVars, flVars, clVars, stVars>>

\* lines 192-222: one iteration of for line in proc.stdout
ReadLine ==
    /\ npc = "loop"
    /\ line_count < Len(stream)
    /\ line_count' = line_count + 1
    /\ LET line == stream[line_count + 1]
           i == field_value(line.parts[1])
           d == field_value(line.parts[2])
       IN  IF is_blank(line)
           THEN UNCHANGED <<stats, current_sha, ins, dels, files>>
           ELSE IF is_sha_line(line)
           THEN /\ stats' = IF current_sha # None
                            THEN flush(stats, current_sha.sha, ins, dels, files)
                            ELSE stats
                /\ current_sha' = [kind |-> "sha", sha |-> line.id]
                /\ ins' = 0
                /\ dels' = 0
                /\ files' = 0
           ELSE IF current_sha # None /\ Len(line.parts) >= 3 /\ i.ok /\ d.ok
           THEN /\ ins' = ins + i.value
                /\ dels' = dels + d.value
                /\ files' = files + 1
                /\ UNCHANGED <<stats, current_sha>>
           ELSE UNCHANGED <<stats, current_sha, ins, dels, files>>
    /\ UNCHANGED <<stream, npc, stop_watchdog, wpc>>
    /\ UNCHANGED <<envVars, mbVars, cgVars, flVars, clVars, stVars>>

\* lines 224-226: the stream has ended, the last commit is saved
EndOfStream ==
    /\ npc = "loop"
    /\ line_count = Len(stream)
    /\ stats' = IF current_sha # None
                THEN flush(stats, current_sha.sha, ins, dels, files)
                ELSE stats
    /\ npc' = "wait"
    /\ UNCHANGED <<stream, current_sha, ins, dels, files, line_count, stop_watchdog, wpc>>
    /\ UNCHANGED <<envVars, mbVars, cgVars, flVars, clVars, stVars>>

\* lines 228-229: proc.wait(); stop_watchdog.set()
StopWatchdog ==
    /\ npc = "wait"
    /\ stop_watchdog' = TRUE
    /\ npc' = "join"
    /\ UNCHANGED <<stream, stats, current_sha, ins, dels, files, line_count, wpc>>
    /\ UNCHANGED <<envVars, mbVars, cgVars, flVars, clVars, stVars>>

\* lines 230-235: watcher.join(timeout=1.0) returns when the thread has ended
\* or after one second, and stats is returned
JoinAndReturn ==
    /\ npc = "join"
    /\ npc' = "returned"
    /\ UNCHANGED <<stream, stats, current_sha, ins, dels, files, line_count,
                   stop_watchdog, wpc>>
    /\ UNCHANGED <<envVars, mbVars, cgVars, flVars, clVars, stVars>>

\* Mutant: the watchdog never sees the event
is_set_Never(event) == FALSE

\* stop_watchdog.is_set()
is_set(event) == event

\* line 178: while not stop_watchdog.is_set()
WatchdogLoopTest ==
    /\ wpc = "test"
    /\ wpc' = IF is_set(stop_watchdog) THEN "exited" ELSE "waiting"
    /\ UNCHANGED <<stream, npc, stats, current_sha, ins, dels, files, line_count,
                   stop_watchdog>>
    /\ UNCHANGED <<envVars, mbVars, cgVars, flVars, clVars, stVars>>

\* line 179: stop_watchdog.wait(10.0) returns when the event is set or after
\* ten seconds
WatchdogWait ==
    /\ wpc = "waiting"
    /\ wpc' = "woken"
    /\ UNCHANGED <<stream, npc, stats, current_sha, ins, dels, files, line_count,
                   stop_watchdog>>
    /\ UNCHANGED <<envVars, mbVars, cgVars, flVars, clVars, stVars>>

\* lines 180-186: break when the event is set, else a progress line with
\* len(stats) and line_count is written and the loop goes on
WatchdogReport ==
    /\ wpc = "woken"
    /\ wpc' = IF is_set(stop_watchdog) THEN "exited" ELSE "test"
    /\ UNCHANGED <<stream, npc, stats, current_sha, ins, dels, files, line_count,
                   stop_watchdog>>
    /\ UNCHANGED <<envVars, mbVars, cgVars, flVars, clVars, stVars>>

\* ------------------------------------------------------------------------
\* Repositories and configurations of the model
\* ------------------------------------------------------------------------
MaxTime == 2

Offsets == {0, 1}

Datetimes == {[wall |-> i + o, off |-> o] : i \in 0..MaxTime, o \in Offsets}

EmptyBound == [kind |-> "empty"]

SampleMessages == << [conv |-> "feat", contains |-> {"feat", "add"}],
                     [conv |-> NoType, contains |-> {"fix", "merge branch"}],
                     [conv |-> NoType, contains |-> {}] >>

MessageOf == [s \in Shas |-> SampleMessages[((s - 1) % Len(SampleMessages)) + 1]]

StatOf == [s \in Shas |-> [ins |-> s, dels |-> 1, files |-> 1]]

\* committed times in commit order, all in UTC
OrderedClock == [s \in Shas |-> [wall |-> s, off |-> 0]]

\* Any history and any references, committed in order.
ShapeRepos ==
    {[refs |-> rf, parents |-> ps, committed |-> OrderedClock, message |-> MessageOf,
      stat |-> StatOf, active |-> Detached] :
        rf \in RefLists, ps \in Dags}

\* main and feature share their history; every commit from the third on
\* merges the two before it.
SharedParents ==
    [s \in Shas |-> IF s = 1 THEN <<>> ELSE IF s = 2 THEN <<1>> ELSE <<s - 2, s - 1>>]

SharedRefs == << [name |-> <<"main">>, tag |-> FALSE, target |-> MaxCommits],
                 [name |-> <<"feature">>, tag |-> FALSE, target |-> MaxCommits - 1] >>

\* One history, any committed times and time zones.
ClockRepos ==
    {[refs |-> SharedRefs, parents |-> SharedParents, committed |-> cl,
      message |-> MessageOf, stat |-> StatOf, active |-> Detached] :
        cl \in [Shas -> Datetimes]}

\* Three branches and a tag anywhere on one history.
BranchyRepos ==
    {[refs |-> << [name |-> <<"dev">>, tag |-> FALSE, target |-> t[1]],
                  [name |-> <<"feature">>, tag |-> FALSE, target |-> t[2]],
                  [name |-> <<"main">>, tag |-> FALSE, target |-> t[3]],
                  [name |-> <<"v1">>, tag |-> TRUE, target |-> t[4]] >>,
      parents |-> SharedParents, committed |-> OrderedClock, message |-> MessageOf,
      stat |-> StatOf, active |-> Detached] :
        t \in Shas \X Shas \X Shas \X Shas}

\* Any local branches on one commit, with any branch or none checked out
\* (also one that has no reference yet).
HeadNames == << <<"dev">>, <<"feature">>, <<"main">>, <<"master">> >>

RECURSIVE HeadListsFrom(_)
HeadListsFrom(i) ==
    IF i > Len(HeadNames) THEN {<<>>}
    ELSE HeadListsFrom(i + 1)
         \cup {<<[name |-> HeadNames[i], tag |-> FALSE, target |-> 1]>> \o rest :
                 rest \in HeadListsFrom(i + 1)}

HeadRepos ==
    {[refs |-> rf, parents |-> SharedParents, committed |-> OrderedClock,
      message |-> MessageOf, stat |-> StatOf, active |-> a] :
        rf \in HeadListsFrom(1), a \in {Detached} \cup Range(HeadNames)}

\* an ISO date without a UTC offset
NaiveBound(w) == [kind |-> "iso", wall |-> w, off |-> 0]

DateBounds == {EmptyBound} \cup {NaiveBound(w) : w \in {1}}

\* the special words in several cases, text that is no date, and ISO dates
\* without and with a UTC offset
DateTexts ==
    {EmptyBound, NaiveBound(1)}
    \cup {[kind |-> "text", text |-> t] : t \in {"ALL", "Today", "now", "soon"}}
    \cup {[kind |-> "iso", wall |-> 2, off |-> 1]}

DatedClocks ==
    {[s \in Shas |-> IF s = 1 THEN dt ELSE OrderedClock[s]] : dt \in Datetimes}

DatedRepos ==
    {[refs |-> SharedRefs, parents |-> SharedParents, committed |-> cl,
      message |-> MessageOf, stat |-> StatOf, active |-> Detached] :
        cl \in DatedClocks}

\* ------------------------------------------------------------------------
\* Inputs of _classify_category: the keyword sets of short messages
\* ------------------------------------------------------------------------
MaxKeywords == 3

ClassifierVocabulary ==
    {"merge conflict", "fix conflict", "resolved merge", "merge branch", "squash and merge",
     "squash", "fixup!", "release", "fix", "resolve", "feat", "add", "doc", "test", "ci",
     "refactor"}

ClassifierMessages(n) ==
    {m \in SUBSET ClassifierVocabulary : Cardinality(m) <= n /\ KeywordClosed(m)}

ClassifierTypes == CONVENTIONAL_TYPES \cup {NoType, "wip"}

\* ------------------------------------------------------------------------
\* Inputs of compute_change_flow
\* ------------------------------------------------------------------------
DayTime(d, tick, off) == [wall |-> d * TicksPerDay + tick + off, off |-> off]

SampleCategories == <<"feature", "bugfix">>

FlowCommit(i, dt, branch, tags) ==
    [sha |-> i, timestamp |-> isoformat(dt), branch |-> branch, parents |-> <<>>,
     tags |-> tags, insertions |-> i, deletions |-> 1, files_changed |-> 1,
     category |-> SampleCategories[((i - 1) % Len(SampleCategories)) + 1]]

FlowMerge(from, dt) ==
    [sha |-> 0, from_branch |-> from, to_branch |-> <<"main">>, timestamp |-> isoformat(dt)]

ListsUpTo(S, n) == UNION {[1..k -> S] : k \in 0..n}

MainDefault == << [name |-> <<"dev">>, is_default |-> FALSE],
                  [name |-> <<"feature">>, is_default |-> FALSE],
                  [name |-> <<"main">>, is_default |-> TRUE] >>

DevDefault == << [name |-> <<"dev">>, is_default |-> TRUE],
                 [name |-> <<"feature">>, is_default |-> FALSE] >>

\* commits of one branch 6, 7 and 8 days apart, some in other time zones
DroughtTimes == {<<1, 0>>, <<8, 0>>, <<9, 0>>, <<9, -1>>, <<17, 0>>, <<18, 1>>}

DroughtInputs(n) ==
    {[commits |-> [i \in DOMAIN ch |->
                      FlowCommit(i, DayTime(ch[i][1], 0, ch[i][2]), <<"main">>, <<>>)],
      merges |-> <<>>,
      branches |-> MainDefault] :
        ch \in ListsUpTo(DroughtTimes, n) \ {<<>>}}

\* commits on three branches, at most one merge, up to a week and a tick
\* before or after it
WorkCommits ==
    {<<<<"main">>, 3>>, <<<<"feature">>, 3>>, <<<<"feature">>, 10>>, <<<<"dev">>, 3>>}

WorkMerges ==
    {<<>>, <<FlowMerge(<<"unknown">>, DayTime(10, 0, 0))>>}
    \cup {<<FlowMerge(<<"feature">>, DayTime(at[1], at[2], 0))>> :
             at \in {<<2, 0>>, <<10, 0>>, <<10, 1>>}}

WorkInputs(n) ==
    {[commits |-> [i \in DOMAIN ch |->
                      FlowCommit(i, DayTime(ch[i][2], 0, 0), ch[i][1], <<>>)],
      merges |-> ms,
      branches |-> bs] :
        ch \in ListsUpTo(WorkCommits, n) \ {<<>>},
        ms \in WorkMerges,
        bs \in {MainDefault, DevDefault}}

\* tagged and untagged commits of the default branch
ReleaseInputs(n) ==
    {[commits |-> [i \in DOMAIN ch |->
                      FlowCommit(i, DayTime(ch[i][1], 0, 0), <<"main">>, ch[i][2])],
      merges |-> <<>>,
      branches |-> MainDefault] :
        ch \in ListsUpTo({1, 4, 11} \X {<<>>, <<<<"v1">>>>, <<<<"v2">>>>}, n)}

\* two branches with commits 3 days apart, one of them merged up to twice, 2
\* or 5 days after the first commit
LifespanMerges ==
    ListsUpTo({FlowMerge(<<"feature">>, DayTime(d, 0, 0)) : d \in {3, 6}}, 2)

LifespanInputs(n) ==
    {[commits |-> [i \in DOMAIN ch |->
                      FlowCommit(i, DayTime(ch[i][2], 0, 0), ch[i][1], <<>>)],
      merges |-> ms,
      branches |-> MainDefault] :
        ch \in ListsUpTo({<<"feature">>, <<"dev">>} \X {1, 4}, n) \ {<<>>},
        ms \in LifespanMerges}

FlowInputs(n) ==
    DroughtInputs(n) \cup WorkInputs(n) \cup ReleaseInputs(n) \cup LifespanInputs(n)

\* tagged commits from half a day to 999999 days apart
IntervalTimes == {<<1, 0>>, <<7, 1>>, <<8, 0>>, <<11, 0>>, <<15, 0>>, <<26, 0>>, <<31, 0>>,
                  <<61, 0>>, <<91, 0>>, <<1000000, 0>>}

IntervalInputs(n) ==
    {[commits |-> [i \in DOMAIN ch |->
                      FlowCommit(i, DayTime(ch[i][1], ch[i][2], 0), <<"main">>, <<<<"v1">>>>)],
      merges |-> <<>>,
      branches |-> MainDefault] :
        ch \in ListsUpTo(IntervalTimes, n) \ {<<>>}}

\* the state in which the lists of input are at position at
FlowEntry(input, at) ==
    /\ repo = None
    /\ date_start = EmptyBound
    /\ date_end = EmptyBound
    /\ pc = at
    /\ future_membership = [state |-> "none", value |-> EmptyMap]
    /\ future_numstat = [state |-> "none", value |-> EmptyMap]
    /\ default_branch = <<"main">>
    /\ branches = input.branches
    /\ membership = EmptyMap
    /\ numstat = EmptyMap
    /\ ref_i = 1
    /\ yielded = {}
    /\ seen = {}
    /\ commits = input.commits
    /\ merges = input.merges
    /\ MbIdle
    /\ FlIdle
    /\ ClIdle
    /\ StIdle
    /\ NsIdle

\* collect_git is entered
CgStart ==
    /\ pc = "start"
    /\ future_membership = [state |-> "none", value |-> EmptyMap]
    /\ future_numstat = [state |-> "none", value |-> EmptyMap]
    /\ default_branch = <<"main">>
    /\ branches = <<>>
    /\ membership = EmptyMap
    /\ numstat = EmptyMap
    /\ ref_i = 1
    /\ yielded = {}
    /\ seen = {}
    /\ commits = <<>>
    /\ merges = <<>>
    /\ MbIdle
    /\ FlIdle
    /\ ClIdle
    /\ StIdle
    /\ NsIdle

CgInit ==
    /\ \/ /\ repo \in ShapeRepos \cup BranchyRepos \cup HeadRepos
          /\ date_start = EmptyBound
          /\ date_end = EmptyBound
       \/ /\ repo \in ClockRepos
          /\ date_start \in DateBounds
          /\ date_end \in DateBounds
    /\ CgStart

\* one history, the first commit made at any time in any zone, and any two
\* bounds
DateInit ==
    /\ repo \in DatedRepos
    /\ date_start \in DateTexts
    /\ date_end \in DateTexts
    /\ CgStart


CgNext ==
    \/ CollectBegin
    \/ MembershipCompletes
    \/ MembershipRaises
    \/ NumstatCompletes
    \/ NumstatRaises
    \/ ResultMembership
    \/ ResultNumstat
    \/ PoolExit
    \/ WalkCommit
    \/ WalkNextRef
    \/ WalkFinish
    \/ ChangeFlowPhase

Spec == CgInit /\ [][CgNext]_vars

SpecDates == DateInit /\ [][CgNext]_vars

\* any history with the branch main and a second branch, which may bear the
\* name that a merge into the default branch is recorded under
SentinelRepos ==
    {[refs |-> rf, parents |-> ps, committed |-> OrderedClock, message |-> MessageOf,
      stat |-> StatOf, active |-> Detached] :
        rf \in {<< [name |-> <<"feature">>, tag |-> FALSE, target |-> t[1]],
                   [name |-> <<"main">>, tag |-> FALSE, target |-> t[2]] >> :
                   t \in Shas \X Shas}
               \cup {<< [name |-> <<"main">>, tag |-> FALSE, target |-> t[1]],
                        [name |-> <<"unknown">>, tag |-> FALSE, target |-> t[2]] >> :
                        t \in Shas \X Shas},
        ps \in Dags}

SentinelInit ==
    /\ repo \in SentinelRepos
    /\ date_start = EmptyBound
    /\ date_end = EmptyBound
    /\ CgStart

SpecSentinel == SentinelInit /\ [][CgNext]_vars

\* ------------------------------------------------------------------------
\* _build_branch_membership on its own, for every pool size
\* ------------------------------------------------------------------------
MbNext ==
    \/ ProcessRefBegin
    \/ \E i \in DOMAIN task : AcquireLock(i)
    \/ \E i \in DOMAIN task : MergeEntry(i)
    \/ \E i \in DOMAIN task : ReleaseLock(i)
    \/ MbReturn

MbInit ==
    /\ repo \in ShapeRepos
    /\ date_start = EmptyBound
    /\ date_end = EmptyBound
    /\ \E w \in 1..MaxCpus : MbStart(repo.refs, w)
    /\ CgIdle
    /\ FlIdle
    /\ ClIdle
    /\ StIdle
    /\ NsIdle

SpecMembership == MbInit /\ [][MbNext]_vars


\* ------------------------------------------------------------------------
\* compute_change_flow on every commit, merge and branch list
\* ------------------------------------------------------------------------
FlowInit == \E input \in FlowInputs(MaxCommits) : FlowEntry(input, "returned")

FlowNext == ChangeFlowPhase

SpecFlow == FlowInit /\ [][FlowNext]_vars

\* ------------------------------------------------------------------------
\* the release-interval section on every list of tagged commits
\* ------------------------------------------------------------------------
IntervalInit == \E input \in IntervalInputs(MaxCommits) : FlowEntry(input, "release_intervals")

IntervalNext == ReleaseIntervalSection

SpecIntervals == IntervalInit /\ [][IntervalNext]_vars

\* ------------------------------------------------------------------------
\* _classify_category on every input
\* ------------------------------------------------------------------------
ClassifyInit ==
    /\ \E m \in ClassifierMessages(MaxKeywords), t \in ClassifierTypes, b \in BOOLEAN :
            cls_in = [msg_lower |-> m, conventional_type |-> t, is_merge_commit |-> b]
    /\ cls_out = "pending"
    /\ repo = None
    /\ date_start = EmptyBound
    /\ date_end = EmptyBound
    /\ MbIdle
    /\ CgIdle
    /\ FlIdle
    /\ StIdle
    /\ NsIdle

ClassifyNext == Classify

SpecClassify == ClassifyInit /\ [][ClassifyNext]_vars

\* ------------------------------------------------------------------------
\* _collect_numstat on every short stream of lines
\* ------------------------------------------------------------------------
MaxLines == 3

BlankLine == [chars |-> 0, lowerhex |-> TRUE, id |-> 0, parts |-> <<"", "">>]

ShaLine(k) == [chars |-> 40, lowerhex |-> TRUE, id |-> k, parts |-> <<"sha", "">>]

\* 39 hexadecimal characters, and 40 characters with an upper-case letter
NearShaLines ==
    {[chars |-> 39, lowerhex |-> TRUE, id |-> 1, parts |-> <<"sha", "">>],
     [chars |-> 40, lowerhex |-> FALSE, id |-> 1, parts |-> <<"sha", "">>]}

ChangeLine(fields) == [chars |-> 9, lowerhex |-> FALSE, id |-> 0, parts |-> fields]

ChangeLines ==
    {ChangeLine(fields) : fields \in {<<"3", "1", "f">>, <<"-", "-", "f">>,
                                       <<"-2", "1", "f">>, <<"x", "1", "f">>,
                                       <<"3", "x", "f">>, <<"3", "1">>,
                                       <<"3", "1", "f", "g">>}}

NumstatLines == {BlankLine, ShaLine(1), ShaLine(2)} \cup NearShaLines \cup ChangeLines

\* the stream the watchdog is observed on
WatchedLines == {BlankLine, ShaLine(1), ChangeLine(<<"3", "1", "f">>)}

NumstatEntry(lines) ==
    /\ stream = lines
    /\ npc = "start"
    /\ stats = EmptyMap
    /\ current_sha = None
    /\ ins = 0
    /\ dels = 0
    /\ files = 0
    /\ line_count = 0
    /\ stop_watchdog = FALSE
    /\ wpc = "idle"
    /\ repo = None
    /\ date_start = EmptyBound
    /\ date_end = EmptyBound
    /\ MbIdle
    /\ CgIdle
    /\ FlIdle
    /\ ClIdle
    /\ StIdle

NumstatInit == \E lines \in ListsUpTo(NumstatLines, MaxLines) : NumstatEntry(lines)

WatchedInit == \E lines \in ListsUpTo(WatchedLines, MaxLines) : NumstatEntry(lines)

ParserNext == StartWatcher \/ ReadLine \/ EndOfStream \/ StopWatchdog \/ JoinAndReturn

WatchdogNext == WatchdogLoopTest \/ WatchdogWait \/ WatchdogReport

NumstatNext == ParserNext \/ WatchdogNext

SpecNumstat == NumstatInit /\ [][NumstatNext]_vars

\* both threads keep being scheduled
SpecNumstatFair ==
    /\ WatchedInit
    /\ [][NumstatNext]_vars
    /\ WF_vars(ParserNext)
    /\ WF_vars(WatchdogNext)

\* ------------------------------------------------------------------------
\* _median and _percentile on every short list of values
\* ------------------------------------------------------------------------
MaxValues == 4

SampleValues == {-3, 0, 1, 2, 5}

SamplePercents == {0, 50, 90, 100}

StatInit ==
    /\ \E vs \in ListsUpTo(SampleValues, MaxValues), p \in SamplePercents :
          stat_in = [values |-> vs, p |-> p]
    /\ stat_out = None
    /\ repo = None
    /\ date_start = EmptyBound
    /\ date_end = EmptyBound
    /\ MbIdle
    /\ CgIdle
    /\ FlIdle
    /\ ClIdle
    /\ NsIdle

StatNext == StatHelpers

SpecStat == StatInit /\ [][StatNext]_vars

\* ========================================================================
\* Properties
\* ========================================================================

\* The branch names of the references a commit is reachable from.
ExpectedMembership(rp) ==
    LET named == {r \in Range(rp.refs) : StripOrigin(r.name) # HEADName}
        covered == UNION {ReachableFrom(rp.parents, r.target) : r \in named}
    IN  [sha \in covered |->
            {StripOrigin(r.name) : r \in {x \in named : sha \in ReachableFrom(rp.parents, x.target)}}]

\* C1: whatever the pool size and the interleaving of the process_ref
\* workers, _build_branch_membership returns the map that gives each commit
\* exactly the branch names (origin/ stripped, HEAD left out) of the
\* references it is reachable from.
C1_MembershipIndependentOfSchedule ==
    mb_state = "returned" => commit_to_branches = ExpectedMembership(repo)

\* C1 witness: a pool of two or more workers has returned a map in which a
\* commit shared by two references carries both branch names.
C1_Witness ==
    /\ mb_state = "returned"
    /\ max_workers >= 2
    /\ Len(repo.refs) >= 2
    /\ \E sha \in DOMAIN commit_to_branches : Cardinality(commit_to_branches[sha]) >= 2

WalkStarted == pc \in {"walk", "returned", "done"}

\* C2: whenever the walk is under way or over, both phases have completed
\* and the walker's membership map and numstat table are their results.
C2_WalkAfterBothPhases ==
    WalkStarted =>
        /\ future_membership.state = "done"
        /\ future_numstat.state = "done"
        /\ membership = future_membership.value
        /\ numstat = future_numstat.value

\* C2 witness: the walker has processed its first commit.
C2_Witness ==
    /\ pc = "walk"
    /\ Cardinality(seen) = 1
    /\ Len(commits) = 1

\* C3: once either phase has raised, the walk never starts and no commit or
\* merge is ever produced.
C3_PhaseFailureAborts ==
    (future_membership.state = "raised" \/ future_numstat.state = "raised") =>
        /\ ~WalkStarted
        /\ commits = <<>>
        /\ merges = <<>>

\* C3 witness: the membership phase completed, the numstat phase raised,
\* and collect_git has left with the exception.
C3_Witness ==
    /\ pc = "raised"
    /\ future_membership.state = "done"
    /\ future_numstat.state = "raised"

\* C4: the returned commit list is in non-decreasing order of the commits'
\* committed instants and holds no SHA twice.
C4_CommitsSortedAndUnique ==
    pc \in {"returned", "done"} =>
        /\ \A i, j \in DOMAIN commits :
              i < j => Instant(repo.committed[commits[i].sha])
                          <= Instant(repo.committed[commits[j].sha])
        /\ \A i, j \in DOMAIN commits : commits[i].sha = commits[j].sha => i = j

\* C4 witness: a returned list with a commit reachable from two references
\* and an older commit that was committed later than a newer one.
C4_Witness ==
    /\ pc = "returned"
    /\ \E i \in DOMAIN commits :
          Cardinality({r \in DOMAIN repo.refs :
                          commits[i].sha \in IterCommits(repo, repo.refs[r])}) >= 2
    /\ \E i, j \in DOMAIN commits :
          /\ commits[i].sha < commits[j].sha
          /\ Instant(repo.committed[commits[i].sha]) > Instant(repo.committed[commits[j].sha])

MergeCommitIndexes == {i \in DOMAIN commits : Len(commits[i].parents) >= 2}

\* C5: in the returned lists every merge entry belongs to a commit with two
\* or more parents, with that commit's timestamp and the default branch as
\* to_branch, and every such commit has exactly one merge entry.
C5_MergesAreTheMergeCommits ==
    pc \in {"returned", "done"} =>
        /\ \A k \in DOMAIN merges :
              \E i \in MergeCommitIndexes :
                  /\ commits[i].sha = merges[k].sha
                  /\ commits[i].timestamp = merges[k].timestamp
                  /\ merges[k].to_branch = default_branch
        /\ \A i \in MergeCommitIndexes :
              Cardinality({k \in DOMAIN merges : merges[k].sha = commits[i].sha}) = 1
        /\ Len(merges) = Cardinality(MergeCommitIndexes)

\* C5 witness: a returned history with a merge commit and a plain commit.
C5_Witness ==
    /\ pc = "returned"
    /\ merges # <<>>
    /\ \E i \in DOMAIN commits : Len(commits[i].parents) = 1

\* ------------------------------------------------------------------------
\* C6.  The category depends on nothing but the three arguments, and a
\* message holding a conflict, merge or squash phrase is classified as one of
\* the structural categories it holds a phrase of, the same one whatever the
\* conventional type is: "fix: resolve merge conflict in parser" with type
\* fix is a conflict, not a bugfix.
\* ------------------------------------------------------------------------
KeywordsOf(cat) ==
    UNION {CATEGORY_KEYWORDS[i].kws : i \in {j \in DOMAIN CATEGORY_KEYWORDS :
                                                CATEGORY_KEYWORDS[j].cat = cat}}

StructuralHits(msg_lower) ==
    {cat \in {"conflict", "merge", "squash"} : KeywordsOf(cat) \cap msg_lower # {}}

C6_StructuralOverridesType ==
    cls_out \notin {"idle", "pending"} =>
        /\ StructuralHits(cls_in.msg_lower) # {} =>
              /\ cls_out \in StructuralHits(cls_in.msg_lower)
              /\ \A t \in ClassifierTypes :
                    classify_category(cls_in.msg_lower, t, cls_in.is_merge_commit) = cls_out
        /\ (cls_in.msg_lower = {"fix", "resolve", "merge conflict"}
              /\ cls_in.conventional_type = "fix") => cls_out = "conflict"

C6_Witness ==
    /\ cls_out = "conflict"
    /\ cls_in.msg_lower = {"fix", "resolve", "merge conflict"}
    /\ cls_in.conventional_type = "fix"

\* ------------------------------------------------------------------------
\* C7.  The drought periods reported for a calendar are exactly its maximal
\* runs of zero-commit days that are at least 7 days long, each once, with
\* the run's first day, last day and length; the count, the longest and the
\* total are those of the reported periods.
\* ------------------------------------------------------------------------
ZeroRuns(velocity) ==
    {r \in (DOMAIN velocity) \X (DOMAIN velocity) :
        /\ r[1] <= r[2]
        /\ \A i \in r[1]..r[2] : velocity[i].count = 0
        /\ r[1] = 1 \/ velocity[r[1] - 1].count # 0
        /\ r[2] = Len(velocity) \/ velocity[r[2] + 1].count # 0}

C7_DroughtsAreLongZeroRuns ==
    (pc = "done" /\ commits # <<>>) =>
        LET v == metrics.velocity
            long == {r \in ZeroRuns(v.daily_velocity) : r[2] - r[1] + 1 >= 7}
        IN  /\ Range(v.drought_periods) =
                 {[start_date |-> v.daily_velocity[r[1]].date,
                   end_date |-> v.daily_velocity[r[2]].date,
                   duration_days |-> r[2] - r[1] + 1] : r \in long}
            /\ Len(v.drought_periods) = Cardinality(long)
            /\ v.drought_count = Cardinality(long)
            /\ v.total_drought_days = SumSeq([i \in DOMAIN v.drought_periods |->
                                                 v.drought_periods[i].duration_days])
            /\ \A r \in long : r[2] - r[1] + 1 <= v.longest_drought_days

C7_Witness ==
    /\ pc = "done"
    /\ metrics.velocity.drought_count = 2
    /\ \A i \in DOMAIN metrics.velocity.drought_periods :
          metrics.velocity.drought_periods[i].duration_days = 7

\* ------------------------------------------------------------------------
\* C8.  The fast, slow and unmerged lines add up to the lines (insertions
\* plus deletions) of the commits off the default branch, the three commit
\* counts add up to the number of those commits, and the segments of each
\* merge speed add up to that speed's lines and commits.
\* ------------------------------------------------------------------------
OffDefaultLines ==
    SumSeq([i \in DOMAIN commits |->
               IF commits[i].branch # find_default_branch(branches)
               THEN commits[i].insertions + commits[i].deletions ELSE 0])

OffDefaultCount ==
    Cardinality({i \in DOMAIN commits : commits[i].branch # find_default_branch(branches)})

SegmentLines(segments, speed) ==
    SumSeq([i \in DOMAIN segments |->
               IF segments[i].merge_speed = speed THEN segments[i].lines_changed ELSE 0])

SegmentCommits(segments, speed) ==
    SumSeq([i \in DOMAIN segments |->
               IF segments[i].merge_speed = speed THEN segments[i].commit_count ELSE 0])

C8_DispositionAddsUp ==
    pc = "done" =>
        LET wd == metrics.work_disposition
        IN  /\ wd.fast_merged_lines + wd.slow_merged_lines + wd.unmerged_lines
                 = OffDefaultLines
            /\ wd.fast_merged_commits + wd.slow_merged_commits + wd.unmerged_commits
                 = OffDefaultCount
            /\ SegmentLines(wd.segments, "fast") = wd.fast_merged_lines
            /\ SegmentLines(wd.segments, "slow") = wd.slow_merged_lines
            /\ SegmentLines(wd.segments, "unmerged") = wd.unmerged_lines
            /\ SegmentCommits(wd.segments, "fast") = wd.fast_merged_commits
            /\ SegmentCommits(wd.segments, "slow") = wd.slow_merged_commits
            /\ SegmentCommits(wd.segments, "unmerged") = wd.unmerged_commits
            /\ \A i \in DOMAIN wd.segments :
                  wd.segments[i].merge_speed \in {"fast", "slow", "unmerged"}

C8_Witness ==
    /\ pc = "done"
    /\ metrics.work_disposition.fast_merged_lines > 0
    /\ metrics.work_disposition.slow_merged_lines > 0
    /\ \E i \in DOMAIN commits : commits[i].branch = find_default_branch(branches)

\* ------------------------------------------------------------------------
\* C9.  With two or more tagged commits the counts of the six histogram bins
\* add up to the number of consecutive tag pairs.
\* ------------------------------------------------------------------------
TaggedCount == Cardinality({i \in DOMAIN commits : commits[i].tags # <<>>})

C9_BinCountsSumToPairs ==
    (pc = "work_disposition" /\ TaggedCount >= 2) =>
        LET dist == metrics.intervals.release_interval_distribution
        IN  /\ Len(dist) = 6
            /\ SumSeq([b \in DOMAIN dist |-> dist[b].count]) = TaggedCount - 1

\* ------------------------------------------------------------------------
\* C10.  As stated: the unmerged count plus the number of branches reported
\* as merged is the number of non-default branches collect_git lists.
\* ------------------------------------------------------------------------
MergedBranches ==
    {metrics.lifespans.branch_lifespans[i].branch :
        i \in {j \in DOMAIN metrics.lifespans.branch_lifespans :
                  metrics.lifespans.branch_lifespans[j].merged}}

ListedNonDefault == {branches[i].name : i \in {j \in DOMAIN branches : ~branches[j].is_default}}

C10_ListedBranchesCounted ==
    pc = "done" =>
        metrics.lifespans.branch_unmerged_count + Cardinality(MergedBranches)
            = Cardinality(ListedNonDefault)

\* C10, amended.  The unmerged count plus the number of branches reported as
\* merged is the number of non-default branches that at least one returned
\* commit is attributed to, and each of them has one lifespan entry.
AttributedNonDefault ==
    {commits[i].branch : i \in DOMAIN commits} \ {find_default_branch(branches)}

C10_AttributedBranchesCounted ==
    pc = "done" =>
        /\ metrics.lifespans.branch_unmerged_count + Cardinality(MergedBranches)
              = Cardinality(AttributedNonDefault)
        /\ Len(metrics.lifespans.branch_lifespans) = Cardinality(AttributedNonDefault)
        /\ {metrics.lifespans.branch_lifespans[i].branch :
               i \in DOMAIN metrics.lifespans.branch_lifespans} = AttributedNonDefault

C10_Witness ==
    /\ pc = "done"
    /\ MergedBranches # {}
    /\ metrics.lifespans.branch_unmerged_count > 0
    /\ ListedNonDefault \ AttributedNonDefault # {}

\* ------------------------------------------------------------------------
\* C11.  Every non-default branch with commits has one lifespan entry.  If
\* some merge names it as from_branch it is merged and its lifespan runs from
\* its first commit to the latest such merge; otherwise it is unmerged, its
\* lifespan runs from its first to its last commit, and it is counted in
\* branch_unmerged_count.  Commits on day 0 and day 3 merged on day 5 give
\* 5.0 days; never merged they give 3.0 days.
\* ------------------------------------------------------------------------
CommitInstants(branch) ==
    {Instant(parse_ts(commits[i].timestamp)) :
        i \in {j \in DOMAIN commits : commits[j].branch = branch}}

MergeInstants(branch) ==
    {Instant(parse_ts(merges[i].timestamp)) :
        i \in {j \in DOMAIN merges : merges[j].from_branch = branch}}

Least(S) == CHOOSE x \in S : \A y \in S : x <= y
Greatest(S) == CHOOSE x \in S : \A y \in S : y <= x

ExpectedLifespanTicks(branch) ==
    IF MergeInstants(branch) # {}
    THEN Greatest(MergeInstants(branch)) - Least(CommitInstants(branch))
    ELSE Greatest(CommitInstants(branch)) - Least(CommitInstants(branch))

C11_LifespanEndsAtLatestMerge ==
    pc = "done" =>
        LET spans == metrics.lifespans.branch_lifespans
        IN  /\ \A b \in AttributedNonDefault :
                  \E i \in DOMAIN spans :
                      /\ spans[i].branch = b
                      /\ spans[i].merged = (MergeInstants(b) # {})
                      /\ spans[i].lifespan_days = RoundTenths(ExpectedLifespanTicks(b))
                      /\ \A j \in DOMAIN spans : spans[j].branch = b => j = i
            /\ metrics.lifespans.branch_unmerged_count
                  = Cardinality({b \in AttributedNonDefault : MergeInstants(b) = {}})

C11_Witness ==
    /\ pc = "done"
    /\ Len(merges) = 2
    /\ merges[1].from_branch = merges[2].from_branch
    /\ merges[1].timestamp # merges[2].timestamp
    /\ \E i \in DOMAIN metrics.lifespans.branch_lifespans :
          LET a == metrics.lifespans.branch_lifespans[i]
          IN  /\ a.branch = merges[1].from_branch
              /\ a.merged
              /\ a.commit_count = 2
              /\ a.lifespan_days = 50

\* ------------------------------------------------------------------------
\* C12.  Once the branches are scanned: if there is a branch, exactly one
\* Branch is the default, and it is "main" if present, else the checked-out
\* branch if it is a branch (a detached HEAD has none), else "master" if
\* present, else the first name in lexicographic order; without branches the
\* list is empty and the default name is "main".
\* ------------------------------------------------------------------------
ScannedNames == {StripOrigin(repo.refs[i].name) : i \in DOMAIN repo.refs} \ {HEADName}

ExpectedDefault ==
    IF <<"main">> \in ScannedNames THEN <<"main">>
    ELSE IF repo.active # Detached /\ repo.active \in ScannedNames THEN repo.active
    ELSE IF <<"master">> \in ScannedNames THEN <<"master">>
    ELSE IF ScannedNames # {}
         THEN CHOOSE n \in ScannedNames : \A o \in ScannedNames \ {n} : NameLess(n, o)
    ELSE <<"main">>

C12_ExactlyOneDefault ==
    pc \notin {"idle", "start"} =>
        /\ default_branch = ExpectedDefault
        /\ {branches[i].name : i \in DOMAIN branches} = ScannedNames
        /\ Len(branches) = Cardinality(ScannedNames)
        /\ ScannedNames # {} =>
              /\ Cardinality({i \in DOMAIN branches : branches[i].is_default}) = 1
              /\ \A i \in DOMAIN branches :
                    branches[i].is_default <=> branches[i].name = ExpectedDefault

C12_Witness ==
    /\ pc = "done"
    /\ <<"main">> \notin ScannedNames
    /\ <<"master">> \in ScannedNames
    /\ repo.active = <<"feature">>
    /\ \E i \in DOMAIN branches : branches[i].is_default /\ branches[i].name = <<"feature">>

\* ------------------------------------------------------------------------
\* C13.  The 50th percentile of a list is its median: the middle element of
\* the sorted list for an odd length, the mean of the two middle elements
\* for an even length; the percentile of the empty list is 0 for every p.
\* ------------------------------------------------------------------------
\* the k-th smallest element of values, counting equal elements
KthSmallest(values, k) ==
    CHOOSE x \in Range(values) :
        /\ Cardinality({i \in DOMAIN values : values[i] < x}) < k
        /\ Cardinality({i \in DOMAIN values : values[i] <= x}) >= k

C13_PercentileFiftyIsMedian ==
    stat_out # None =>
        LET vs == stat_in.values
            n == Len(vs)
            pct == stat_out.percentile
        IN  /\ n = 0 => pct.num = 0
            /\ (stat_in.p = 50 /\ n > 0) =>
                  /\ pct.num * stat_out.median.den = stat_out.median.num * pct.den
                  /\ IF n % 2 = 1
                     THEN pct.num = KthSmallest(vs, (n + 1) \div 2) * pct.den
                     ELSE 2 * pct.num
                            = (KthSmallest(vs, n \div 2) + KthSmallest(vs, n \div 2 + 1))
                              * pct.den

C13_Witness ==
    /\ stat_out # None
    /\ stat_in.p = 50
    /\ stat_in.values = <<5, -3, 2, 0>>
    /\ stat_out.percentile.num = stat_out.percentile.den

\* ------------------------------------------------------------------------
\* C14.  The release intervals are the day differences between consecutive
\* tagged commits in ascending order of timestamp, one per consecutive pair
\* and none below 2 tagged commits; mean, median and longest gap are those
\* of the intervals.  Tagged commits on days 0, 10 and 25 give intervals 10
\* and 15, mean 12.5, median 12.5 and longest gap 15.
\* ------------------------------------------------------------------------
TaggedInstants ==
    LET tagged == SelectSeq(commits, LAMBDA c : c.tags # <<>>)
    IN  [i \in DOMAIN tagged |-> Instant(parse_ts(tagged[i].timestamp))]

\* the gap after the i-th tagged commit in ascending order of time
GapAfter(i) == KthSmallest(TaggedInstants, i + 1) - KthSmallest(TaggedInstants, i)

\* the days on which the tagged commits were made, counted from the first
TaggedDayOffsets ==
    {(t - Least(Range(TaggedInstants))) \div TicksPerDay : t \in Range(TaggedInstants)}

C14_IntervalsBetweenConsecutiveTags ==
    pc = "work_disposition" =>
        LET n == Len(TaggedInstants)
            sec == metrics.intervals
            gaps == [i \in 1..(n - 1) |-> GapAfter(i)]
            med == median(gaps)
        IN  /\ Len(sec.release_intervals) = IF n >= 2 THEN n - 1 ELSE 0
            /\ \A i \in DOMAIN sec.release_intervals :
                  sec.release_intervals[i].days_since_previous = RoundTenths(gaps[i])
            /\ n < 2 => /\ sec.release_interval_mean = 0
                        /\ sec.release_interval_median = 0
                        /\ sec.release_interval_longest_gap = 0
            /\ n >= 2 =>
                  /\ sec.release_interval_mean
                        = RoundHalfEven((Greatest(Range(TaggedInstants))
                                           - Least(Range(TaggedInstants))) * 10,
                                        (n - 1) * TicksPerDay)
                  /\ sec.release_interval_median
                        = RoundHalfEven(med.num * 10, med.den * TicksPerDay)
                  /\ sec.release_interval_longest_gap
                        = RoundTenths(Greatest(Range(gaps)))
            /\ (n = 3 /\ TaggedDayOffsets = {0, 10, 25}
                      /\ \A t \in Range(TaggedInstants) : t % TicksPerDay = 0) =>
                  /\ [i \in 1..2 |-> sec.release_intervals[i].days_since_previous]
                        = <<100, 150>>
                  /\ sec.release_interval_mean = 125
                  /\ sec.release_interval_median = 125
                  /\ sec.release_interval_longest_gap = 150

\* the commits of days 25, 0 and 10, in this order of the log
C14_Witness ==
    /\ pc = "work_disposition"
    /\ Len(commits) = 3
    /\ [i \in 1..3 |-> Instant(parse_ts(commits[i].timestamp)) \div TicksPerDay]
          = <<26, 1, 11>>
    /\ metrics.intervals.release_interval_mean = 125
    /\ metrics.intervals.release_interval_longest_gap = 150

\* ------------------------------------------------------------------------
\* C15.  As stated: the returned table maps each SHA line to the sums of
\* insertions and deletions and the number of the well-formed change lines
\* between it and the next SHA line or the end of the stream, a dash counts
\* as 0, a malformed line changes nothing, and all three totals are >= 0.
\* ------------------------------------------------------------------------
ShaPositions == {p \in DOMAIN stream : stream[p].chars = 40 /\ stream[p].lowerhex}

\* the last SHA line naming commit k
LastPosition(k) == Greatest({p \in ShaPositions : stream[p].id = k})

\* the lines after position p up to the next SHA line or the end
BlockOf(p) ==
    {q \in DOMAIN stream : q > p /\ \A r \in ShaPositions : ~(p < r /\ r <= q)}

Numerals == {"0", "1", "3", "-2"}

NumeralValue(f) == IF f = "0" THEN 0 ELSE IF f = "1" THEN 1 ELSE IF f = "3" THEN 3 ELSE 0 - 2

FieldCount(f) == IF f = "-" THEN 0 ELSE NumeralValue(f)

WellFormed(q) ==
    /\ stream[q].chars # 0
    /\ Len(stream[q].parts) >= 3
    /\ stream[q].parts[1] \in Numerals \cup {"-"}
    /\ stream[q].parts[2] \in Numerals \cup {"-"}

RECURSIVE SumOver(_, _)
SumOver(Q, k) ==
    IF Q = {} THEN 0
    ELSE LET q == CHOOSE x \in Q : TRUE
         IN  FieldCount(stream[q].parts[k]) + SumOver(Q \ {q}, k)

ExpectedTotals(p) ==
    LET good == {q \in BlockOf(p) : WellFormed(q)}
    IN  [ins |-> SumOver(good, 1), dels |-> SumOver(good, 2), files |-> Cardinality(good)]

NumstatTableMatchesBlocks ==
    npc = "returned" =>
        /\ DOMAIN stats = {stream[p].id : p \in ShaPositions}
        /\ \A k \in DOMAIN stats : stats[k] = ExpectedTotals(LastPosition(k))

StreamEnded == npc \in {"wait", "join", "returned"}

C16_WatchdogObservesAndStops ==
    /\ [][wpc' # wpc => UNCHANGED <<stats, current_sha, ins, dels, files>>]_vars
    /\ StreamEnded ~> (wpc = "exited")

\* the watchdog woke up in the middle of a commit's block, and has stopped
\* while the parser is still in join()
C16_Witness ==
    /\ npc = "join"
    /\ wpc = "exited"
    /\ stats # EmptyMap
    /\ files > 0

\* ------------------------------------------------------------------------
\* C17.  Every emitted commit is attributed to the smallest name, in sorted
\* order, of its membership set without the default branch, and to the
\* default branch when nothing is left or the commit has no membership
\* entry; the merge entry of a commit with two or more parents names that
\* branch as from_branch, or "unknown" when it is the default branch.
\* ------------------------------------------------------------------------
OffDefaultMembership(sha) ==
    IF sha \in DOMAIN membership THEN membership[sha] \ {default_branch} ELSE {}

C17_AttributedToSmallestOffDefault ==
    WalkStarted =>
        /\ \A i \in DOMAIN commits :
              LET rest == OffDefaultMembership(commits[i].sha)
              IN  IF rest = {}
                  THEN commits[i].branch = default_branch
                  ELSE /\ commits[i].branch \in rest
                       /\ \A other \in rest : ~NameLess(other, commits[i].branch)
        /\ \A k \in DOMAIN merges :
              \E i \in DOMAIN commits :
                  /\ commits[i].sha = merges[k].sha
                  /\ Len(commits[i].parents) >= 2
                  /\ merges[k].from_branch = IF commits[i].branch = default_branch
                                             THEN <<"unknown">>
                                             ELSE commits[i].branch
        /\ \A i \in DOMAIN commits :
              Len(commits[i].parents) >= 2 => \E k \in DOMAIN merges : merges[k].sha = commits[i].sha

\* a merge commit that is on two branches off the default one
C17_Witness ==
    /\ pc = "returned"
    /\ \E k \in DOMAIN merges :
          /\ merges[k].from_branch # <<"unknown">>
          /\ Cardinality(OffDefaultMembership(merges[k].sha)) >= 2

\* ------------------------------------------------------------------------
\* C18.  As stated: a commit is kept exactly when start <= timestamp <= end,
\* both inclusive, a bound being unbounded when its text is empty, a special
\* word in any case, or no date; a commit that is not kept is in neither
\* list.
\* ------------------------------------------------------------------------
Unbounded(bound) == bound.kind \in {"empty", "text"}

\* the instant an ISO text denotes
BoundInstant(bound) == bound.wall - bound.off

InRange(sha) ==
    /\ Unbounded(date_start) \/ BoundInstant(date_start) <= Instant(repo.committed[sha])
    /\ Unbounded(date_end) \/ Instant(repo.committed[sha]) <= BoundInstant(date_end)

C18_KeptExactlyWithinBounds ==
    pc \in {"returned", "done"} =>
        /\ {commits[i].sha : i \in DOMAIN commits} = {sha \in seen : InRange(sha)}
        /\ \A k \in DOMAIN merges : InRange(merges[k].sha)

\* the same with each bound read as the code reads it: the wall-clock time
\* of the text, taken as UTC
InRangeAsRead(sha) ==
    /\ Unbounded(date_start) \/ date_start.wall <= Instant(repo.committed[sha])
    /\ Unbounded(date_end) \/ Instant(repo.committed[sha]) <= date_end.wall

KeptWithinBoundsAsRead ==
    pc \in {"returned", "done"} =>
        /\ {commits[i].sha : i \in DOMAIN commits} = {sha \in seen : InRangeAsRead(sha)}
        /\ \A k \in DOMAIN merges : InRangeAsRead(merges[k].sha)

\* ------------------------------------------------------------------------
\* C19.  There is one commit-to-merge latency entry for every commit off the
\* default branch and none for a commit on it; the latency is the time from
\* the commit to the merge of its branch, in days and never negative (0 when
\* the merge is earlier), and absent when the branch was not merged; the
\* percentages within 7 and 30 days count only the commits with a latency,
\* and are 0 when there is none.
\* ------------------------------------------------------------------------
OffDefaultCommits ==
    SelectSeq(commits, LAMBDA c : c.branch # find_default_branch(branches))

WasMerged(c) == MergeInstants(c.branch) # {}

\* merge time minus commit time, in ticks
RawLatency(c) == Greatest(MergeInstants(c.branch)) - Instant(parse_ts(c.timestamp))

ExpectedLatency(c) == IF RawLatency(c) < 0 THEN 0 ELSE RawLatency(c)

WithLatency == {i \in DOMAIN OffDefaultCommits : WasMerged(OffDefaultCommits[i])}

WithLatencyWithin(days) ==
    {i \in WithLatency : ExpectedLatency(OffDefaultCommits[i]) <= days * TicksPerDay}

ExpectedPercent(days) ==
    IF WithLatency = {} THEN 0
    ELSE RoundHalfEven(Cardinality(WithLatencyWithin(days)) * 1000, Cardinality(WithLatency))

C19_OneLatencyPerOffDefaultCommit ==
    pc = "done" =>
        LET sec == metrics.merge_latency
            entries == sec.commit_merge_latency
        IN  /\ Len(entries) = Len(OffDefaultCommits)
            /\ \A i \in DOMAIN entries :
                  LET c == OffDefaultCommits[i]
                  IN  /\ entries[i].sha = c.sha
                      /\ IF WasMerged(c)
                         THEN /\ entries[i].days_to_merge # None
                              /\ entries[i].days_to_merge.hundredths >= 0
                              /\ entries[i].days_to_merge.hundredths
                                    = RoundHundredths(ExpectedLatency(c))
                         ELSE entries[i].days_to_merge = None
            /\ sec.merge_pct_within_7d = ExpectedPercent(7)
            /\ sec.merge_pct_within_30d = ExpectedPercent(30)

\* a commit on the default branch, one on a branch never merged, one made
\* after the merge of its branch
C19_Witness ==
    /\ pc = "done"
    /\ Len(OffDefaultCommits) < Len(commits)
    /\ \E i \in DOMAIN OffDefaultCommits : ~WasMerged(OffDefaultCommits[i])
    /\ \E i \in WithLatency : RawLatency(OffDefaultCommits[i]) < 0
    /\ metrics.merge_latency.merge_pct_within_7d = 1000

\* ------------------------------------------------------------------------
\* C20.  The category is that of the first rule that applies, in this
\* order: a conflict phrase, a merge phrase, a squash phrase; merge for a
\* merge commit whose message holds none of feat, fix, add, implement,
\* release, doc, test; the conventional-type table when a type is set, other
\* for a type it does not hold; the first of release, bugfix, feature, docs,
\* test, ci, refactor with a keyword in the message; else other.
\* ------------------------------------------------------------------------
Holds(msg_lower, cat) == KeywordsOf(cat) \cap msg_lower # {}

FallbackOrder == <<"release", "bugfix", "feature", "docs", "test", "ci", "refactor">>

FirstRuleCategory(msg_lower, conventional_type, is_merge_commit) ==
    IF Holds(msg_lower, "conflict") THEN "conflict"
    ELSE IF Holds(msg_lower, "merge") THEN "merge"
    ELSE IF Holds(msg_lower, "squash") THEN "squash"
    ELSE IF /\ is_merge_commit
            /\ msg_lower \cap {"feat", "fix", "add", "implement", "release", "doc", "test"} = {}
         THEN "merge"
    ELSE IF conventional_type # NoType
         THEN (IF conventional_type \in DOMAIN CONVENTIONAL_TO_CATEGORY
               THEN CONVENTIONAL_TO_CATEGORY[conventional_type]
               ELSE "other")
    ELSE IF \E i \in DOMAIN FallbackOrder : Holds(msg_lower, FallbackOrder[i])
         THEN FallbackOrder[Least({i \in DOMAIN FallbackOrder :
                                      Holds(msg_lower, FallbackOrder[i])})]
    ELSE "other"

C20_FirstApplicableRule ==
    cls_out \notin {"idle", "pending"} =>
        cls_out = FirstRuleCategory(cls_in.msg_lower, cls_in.conventional_type,
                                    cls_in.is_merge_commit)

\* a message with a phrase of each structural category
C20_Witness ==
    /\ cls_out = "conflict"
    /\ Holds(cls_in.msg_lower, "merge")
    /\ Holds(cls_in.msg_lower, "squash")
    /\ cls_in.conventional_type = NoType

\* ------------------------------------------------------------------------
\* C21.  As stated: a non-default branch is reported as merged, and its
\* commits get a merge latency and a fast or slow disposition, only if some
\* emitted commit with two or more parents is attributed to that branch; a
\* merge commit attributed to the default branch makes no branch merged.
\* ------------------------------------------------------------------------
HasAttributedMerge(b) ==
    \E i \in DOMAIN commits : Len(commits[i].parents) >= 2 /\ commits[i].branch = b

BranchOfSha(sha) ==
    (CHOOSE c \in Range(commits) : c.sha = sha).branch

\* the commits off the default branch whose branch has no merge commit
NeverMergedCommits ==
    {i \in DOMAIN commits : /\ commits[i].branch # find_default_branch(branches)
                            /\ ~HasAttributedMerge(commits[i].branch)}

MergedOnlyByOwnMergeCommit ==
    LET entries == metrics.merge_latency.commit_merge_latency
        wd == metrics.work_disposition
    IN  /\ \A b \in MergedBranches : HasAttributedMerge(b)
        /\ \A i \in DOMAIN entries :
              entries[i].days_to_merge # None => HasAttributedMerge(BranchOfSha(entries[i].sha))
        /\ wd.unmerged_commits = Cardinality(NeverMergedCommits)

C21_MergedOnlyByOwnMergeCommit == pc = "done" => MergedOnlyByOwnMergeCommit

\* the same for the repositories without a branch of the name "unknown"
MergedOnlyByOwnMergeCommitOtherNames ==
    (pc = "done" /\ \A i \in DOMAIN branches : branches[i].name # <<"unknown">>)
        => MergedOnlyByOwnMergeCommit

\* ------------------------------------------------------------------------
\* C22.  For a non-empty commit list whose timestamps are all in UTC, the
\* daily calendar has exactly one entry for every day from the earliest to
\* the latest commit day, its first and its last entry have a count of 1 or
\* more, the counts sum to the number of commits, and no reported drought
\* period contains the first or the last day of the calendar.
\* ------------------------------------------------------------------------
AllUTC == \A i \in DOMAIN commits : parse_ts(commits[i].timestamp).off = 0

CommitDays == {parse_ts(commits[i].timestamp).wall \div TicksPerDay : i \in DOMAIN commits}

C22_CalendarSpansCommitDays ==
    (pc = "done" /\ commits # <<>> /\ AllUTC) =>
        LET v == metrics.velocity.daily_velocity
            periods == metrics.velocity.drought_periods
        IN  /\ Len(v) = Greatest(CommitDays) - Least(CommitDays) + 1
            /\ \A i \in DOMAIN v : v[i].date = Least(CommitDays) + i - 1
            /\ v[1].count >= 1
            /\ v[Len(v)].count >= 1
            /\ SumSeq([i \in DOMAIN v |-> v[i].count]) = Len(commits)
            /\ \A k \in DOMAIN periods :
                  /\ periods[k].start_date > v[1].date
                  /\ periods[k].end_date < v[Len(v)].date

\* two commits on the first day, a drought, and one on the last day
C22_Witness ==
    /\ pc = "done"
    /\ AllUTC
    /\ Len(commits) = 3
    /\ metrics.velocity.daily_velocity[1].count = 2
    /\ metrics.velocity.drought_count = 1

\* Without the condition on the time zones the counts need not sum to the
\* number of commits: min() and max() compare instants, the calendar is built
\* of local dates.  This one does not hold.
CalendarCountsAllCommitsInAnyZone ==
    (pc = "done" /\ commits # <<>>) =>
        LET v == metrics.velocity.daily_velocity
        IN  /\ Len(v) >= 1
            /\ v[1].count >= 1
            /\ v[Len(v)].count >= 1
            /\ SumSeq([i \in DOMAIN v |-> v[i].count]) = Len(commits)

====
